---- MODULE Spec2Model ----
(***************************************************************************)
(* Model of the help/usage engine of package cmdline (src/cmdline/help.go).*)
(*                                                                         *)
(* The command tree, the environment and the hidden-global-flag registry   *)
(* are the state; every help request (runHelp, usage, usageAll,            *)
(* godocHeader) is one atomic action whose result (the text written to the *)
(* line writer, the text written to stderr, the external processes run and *)
(* the returned error) is recorded in the state.                           *)
(*                                                                         *)
(* Text is modelled as real strings.  The line writer is modelled as the   *)
(* sequence of operations performed on it (Fprintln, Fprint, Flush,        *)
(* SetIndents, ForceVerbatim); word wrapping itself is outside the model.  *)
(*                                                                         *)
(* A second specification, SpecWalk, takes one request call by call: every *)
(* call of runHelp and usageAll is a frame of a stack, paths are Go slices *)
(* over backing arrays, and the searches of PATH and the processes run are *)
(* recorded with the node they are made for.                               *)
(***************************************************************************)
EXTENDS Integers, Sequences, FiniteSets, TLC

VARIABLES
    tree,                   \* node id -> Command (the registered command tree)
    env,                    \* the Env: style, width, first-call status, Vars, PATH
    nonHiddenGlobalFlags,   \* the package variable of help.go:491
    hideCalls,              \* the arguments of the calls of HideGlobalFlagsExcept made
    req,                    \* the request performed last
    out,                    \* operations performed on the line writer w
    errOut,                 \* operations performed on stderr
    calls,                  \* external processes run, in order
    ret,                    \* the error returned by the request
    hdr,                    \* the string returned by godocHeader
    stack,                  \* the calls of runHelp and usageAll in progress
    heap,                   \* the backing arrays of the path slices
    lookups,                \* the searches of PATH made, in order
    runs,                   \* the processes run by the calls in progress, in order
    steps                   \* the request walked, and the calls made for it

vars == <<tree, env, nonHiddenGlobalFlags, hideCalls, req, out, errOut, calls, ret, hdr,
          stack, heap, lookups, runs, steps>>

\* The state of a walk through the calls of one request.
walkVars == <<stack, heap, lookups, runs, steps>>

-----------------------------------------------------------------------------
(* Bounds of the model.                                                    *)

\* Longest argument list given to runHelp.
MaxArgs == 2

\* Longest string given to godocHeader as path or as short description.
MaxHdrLen == 2

\* Most calls of HideGlobalFlagsExcept made before help is asked for.
MaxHideCalls == 2

-----------------------------------------------------------------------------
(* Strings.                                                                *)

RECURSIVE Repeat(_, _)
Repeat(s, n) == IF n <= 0 THEN "" ELSE s \o Repeat(s, n - 1)

spaces(count) == Repeat(" ", count)

HasPrefix(s, p) == Len(s) >= Len(p) /\ SubSeq(s, 1, Len(p)) = p

TrimPrefix(s, p) == IF HasPrefix(s, p) THEN SubSeq(s, Len(p) + 1, Len(s)) ELSE s

Contains(s, sub) ==
    \E i \in 1..(Len(s) - Len(sub) + 1) : SubSeq(s, i, i + Len(sub) - 1) = sub

\* fmt's %-*s: s padded with blanks on the right to at least n bytes.
PadRight(s, n) == s \o spaces(n - Len(s))

RECURSIVE Join(_, _)
Join(ss, sep) ==
    IF ss = <<>> THEN ""
    ELSE IF Len(ss) = 1 THEN ss[1]
    ELSE ss[1] \o sep \o Join(Tail(ss), sep)

RECURSIVE Flatten(_)
Flatten(ss) == IF ss = <<>> THEN <<>> ELSE Head(ss) \o Flatten(Tail(ss))

-----------------------------------------------------------------------------
(* The line writer: the operations performed on it, in order.              *)

Op(k, s, a, b) == [k |-> k, s |-> s, a |-> a, b |-> b]

Ln(s) == Op("ln", s, 0, 0)                \* fmt.Fprintln(w, s)
Pr(s) == Op("pr", s, 0, 0)                \* fmt.Fprint / Fprintf without newline
FlushOp == Op("flush", "", 0, 0)          \* w.Flush()
Indents2(a, b) == Op("indents", "", a, b) \* w.SetIndents(spaces(a), spaces(b))
Indents1(a) == Op("indents", "", a, -1)   \* w.SetIndents(spaces(a))
Indents0 == Op("indents", "", -1, -1)     \* w.SetIndents()
Verbatim(on) == Op("verbatim", "", IF on THEN 1 ELSE 0, 0) \* w.ForceVerbatim(on)
\* Text an external process wrote itself to the stdout it was given.
Ext(s) == Op("ext", s, 0, 0)

-----------------------------------------------------------------------------
(* Commands, topics and flags.                                             *)

Topic(name, short, long) == [Name |-> name, Short |-> short, Long |-> long]

Flag(name, value, defValue, usageText) ==
    [Name |-> name, Value |-> value, DefValue |-> defValue, Usage |-> usageText]

\* A Command; Children holds node ids, Runner says whether Runner is non-nil.
Command(name, short, children, topics, flags, lookPath, runner, argsName, argsLong) ==
    [Name |-> name, Short |-> short, Long |-> "Long description of " \o name \o ".",
     Children |-> children, Topics |-> topics, Flags |-> flags,
     LookPath |-> lookPath, Runner |-> runner,
     ArgsName |-> argsName, ArgsLong |-> argsLong]

missingDescription == "No description available"

helpName == "help"

\* The id that stands for a synthesized help command in a path; tree nodes are 1, 2, ...
HelpId == 0

Styles == {"compact", "full", "godoc", "short"}

RECURSIVE Itoa(_)
Itoa(n) ==
    IF n < 0 THEN "-" \o Itoa(0 - n)
    ELSE IF n < 10 THEN SubSeq("0123456789", n + 1, n + 1)
    ELSE Itoa(n \div 10) \o Itoa(n % 10)

\* helpRunner.newCommand: the help command, never stored in the tree.  Its two
\* flags show the config's current style and width; a flag set is visited in
\* the order of the flag names.
newCommand ==
    [Name |-> helpName,
     Short |-> "Display help for commands or topics",
     Long |-> "Help with no args displays the usage of the parent command.\n\nHelp with args displays the usage of the specified sub-command or help topic.\n\n\"help ...\" recursively displays help for all commands and topics.",
     Children |-> <<>>, Topics |-> <<>>,
     Flags |-> << Flag("style", env.style, "compact", "The formatting style for help output."),
                  Flag("width", Itoa(env.width), "<terminal width>", "Format output to this target width in runes, or unlimited if width < 0.") >>,
     LookPath |-> FALSE, Runner |-> TRUE,
     ArgsName |-> "[command/topic ...]",
     ArgsLong |-> "[command/topic ...] optionally identifies a specific sub-command or help topic."]

\* The Command a path element stands for.
Cmd(n) == IF n = HelpId THEN newCommand ELSE tree[n]

Last(path) == path[Len(path)]

\* pathName(prefix, path) with an empty prefix: the names joined by blanks.
pathName(path) == Join([i \in 1..Len(path) |-> Cmd(path[i]).Name], " ")

\* The global flag set (flag.CommandLine), in the order VisitAll visits it.
globalFlags ==
    << Flag("log", "/tmp/log", "$TMP/log", "Log file."),
       Flag("v", "0", "0", "Verbosity.") >>

-----------------------------------------------------------------------------
(* The command trees and environments the model is checked on.             *)

NoFlags == <<>>

\* A tree of built-in commands only.
TreePlain ==
    1 :> Command("root", "Root tool", <<2, 3>>,
                 << Topic("guide", "A guide", "Guide body.") >>,
                 NoFlags, FALSE, FALSE, "", "")
 @@ 2 :> Command("build", "Build things", <<4>>, <<>>,
                 << Flag("race", "false", "false", "Detect races.") >>,
                 FALSE, FALSE, "", "")
 @@ 3 :> Command("test", "Test things.", <<>>,
                 << Topic("tips", "Test tips", "Tips body.") >>,
                 NoFlags, FALSE, TRUE, "<pkgs>", "<pkgs> are the packages to test.")
 @@ 4 :> Command("incrementally", "Build step by step", <<>>, <<>>,
                 NoFlags, FALSE, TRUE, "", "")

\* A tree with an explicit child named help, a child named "..." and a topic
\* with a long name.
TreeOwnHelp ==
    1 :> Command("root", "Root tool", <<2, 3>>,
                 << Topic("troubleshooting", "Fixing problems", "Troubleshooting body.") >>,
                 NoFlags, FALSE, FALSE, "", "")
 @@ 2 :> Command("help", "Custom help", <<>>, <<>>, NoFlags, FALSE, TRUE, "[what]", "")
 @@ 3 :> Command("...", "Everything", <<>>, <<>>, NoFlags, FALSE, TRUE, "", "")

\* A root without children that searches PATH for its sub-commands.
TreeExtOnly ==
    1 :> Command("root", "Root tool", <<>>,
                 << Topic("guide", "A guide", "Guide body.") >>,
                 NoFlags, TRUE, FALSE, "", "")

\* Built-in children and external binaries together; one binary has the name
\* of a child, one the name of a topic, one is named "root-...", and one
\* topic has the name of a child.
TreeMixed ==
    1 :> Command("root", "Root tool", <<2>>,
                 << Topic("build", "Build topic", "Build body."),
                    Topic("extra", "Extra topic", "Extra body.") >>,
                 NoFlags, TRUE, FALSE, "", "")
 @@ 2 :> Command("build", "Build things", <<3>>, <<>>, NoFlags, FALSE, TRUE, "", "")
 @@ 3 :> Command("one", "Step one", <<>>, <<>>, NoFlags, TRUE, TRUE, "", "")

Trees == {TreePlain, TreeOwnHelp, TreeExtOnly, TreeMixed}

\* The executables found in the directories of PATH, in the order of their names.
PathOf(t) ==
    IF t = TreeExtOnly THEN << "root-extra", "root-extraordinary" >>
    ELSE IF t = TreeMixed THEN << "one-more", "root-...", "root-build", "root-extra" >>
    ELSE <<>>

\* The segments help is asked about on a tree.
SegsOf(t) ==
    IF t = TreePlain THEN {"build", "incrementally", "guide", helpName, "...", "nope"}
    ELSE IF t = TreeOwnHelp THEN {helpName, "...", "nope"}
    ELSE IF t = TreeExtOnly THEN {"extra", "guide", helpName, "...", "nope"}
    ELSE {"build", "extra", helpName, "...", "nope"}

\* What an executable does when it is run for help:
\*   cmdline  - understands "help ...", "help <args>" and "-help"
\*   flagonly - understands "-help" only, and writes the same lines in
\*              every style
\*   helponly - understands "help ..." and "help <args>" only
\*   broken   - fails whatever it is given
Kinds == {"cmdline", "flagonly", "helponly", "broken"}

RECURSIVE SeqsUpTo(_, _)
SeqsUpTo(S, n) ==
    IF n = 0 THEN {<<>>}
    ELSE LET shorter == SeqsUpTo(S, n - 1)
         IN  shorter \cup {Append(s, x) : s \in {q \in shorter : Len(q) = n - 1}, x \in S}

RECURSIVE ToSet(_)
ToSet(s) == IF s = <<>> THEN {} ELSE {Head(s)} \cup ToSet(Tail(s))

-----------------------------------------------------------------------------
(* Section headers for godoc.                                              *)

LowerCase == "abcdefghijklmnopqrstuvwxyz"
UpperCase == "ABCDEFGHIJKLMNOPQRSTUVWXYZ"
Digits == "0123456789"
\* The characters go/doc does not allow in a heading.
IllegalInHeading == ";:!?+*/=[]{}_^&~%#@<\">\\"

CharIn(c, class) == \E i \in 1..Len(class) : SubSeq(class, i, i) = c

At(s, i) == SubSeq(s, i, i)

\* unicode.ToUpper on one character.
ToUpper(c) ==
    IF CharIn(c, LowerCase)
    THEN LET i == CHOOSE j \in 1..Len(LowerCase) : At(LowerCase, j) = c
         IN  At(UpperCase, i)
    ELSE c

firstRuneToUpper(s) ==
    IF s = "" THEN "" ELSE ToUpper(At(s, 1)) \o SubSeq(s, 2, Len(s))

\* Whether doc.ToHTML renders the one-line paragraph `line`, given between
\* two unindented paragraphs, as a heading (an <h3> element): the line is not
\* indented, starts with an uppercase letter, ends in a letter or a digit,
\* holds no illegal character, holds "'" only as "'s" before a blank or the
\* end, and holds "." only before a non-blank.
heading(line) ==
    /\ line # ""
    /\ CharIn(At(line, 1), UpperCase)
    /\ \/ CharIn(At(line, Len(line)), LowerCase)
       \/ CharIn(At(line, Len(line)), UpperCase)
       \/ CharIn(At(line, Len(line)), Digits)
    /\ \A i \in 1..Len(line) :
        /\ ~CharIn(At(line, i), IllegalInHeading)
        /\ At(line, i) = "'" =>
              /\ i + 1 <= Len(line)
              /\ At(line, i + 1) = "s"
              /\ (i + 2 <= Len(line) => At(line, i + 2) = " ")
        /\ At(line, i) = "." => (i + 1 <= Len(line) /\ At(line, i + 1) # " ")

godocHeaderAlwaysBoth(path, short) == firstRuneToUpper(path \o " - " \o short)

godocHeader(path, short) ==
    IF path = "" THEN firstRuneToUpper(short)
    ELSE IF short = "" THEN firstRuneToUpper(path)
    ELSE LET header == firstRuneToUpper(path \o " - " \o short)
         IN  IF ~heading(header) THEN firstRuneToUpper(path) ELSE header

\* Fallback width of the visual line break when the width is unlimited.
defaultWidth == 80

lineBreak(style) ==
    <<FlushOp>>
    \o (IF style \in {"compact", "full"}
        THEN <<Ln(Repeat("=", IF env.width < 0 THEN defaultWidth ELSE env.width))>>
        ELSE IF style = "godoc" THEN <<Ln("")>>
        ELSE <<>>)
    \o <<FlushOp>>

-----------------------------------------------------------------------------
(* Flags.                                                                  *)

\* A compiled regexp is modelled by the set of flag names it matches.
MatchString(r, name) == name \in r

\* nonHiddenGlobalFlags is a slice of regexps: nil, or a (possibly empty) list.
NilRegexps == [isNil |-> TRUE, rs |-> <<>>]
Regexps(rs) == [isNil |-> FALSE, rs |-> rs]

HideGlobalFlagsExceptKeepsNil(cur, regexps) ==
    IF cur.isNil /\ regexps = <<>> THEN NilRegexps ELSE Regexps(cur.rs \o regexps)

\* HideGlobalFlagsExcept(regexps...): the new value of nonHiddenGlobalFlags,
\* cur being its value before the call.  append leaves a nil slice nil when
\* nothing is appended to it.
HideGlobalFlagsExcept(cur, regexps) ==
    LET appended == IF cur.isNil /\ regexps = <<>>
                    THEN NilRegexps
                    ELSE Regexps(cur.rs \o regexps)
    IN  IF appended.isNil THEN Regexps(<<>>) ELSE appended

matchRegexps(regexps, name) ==
    IF regexps.isNil THEN TRUE
    ELSE \E i \in 1..Len(regexps.rs) : MatchString(regexps.rs[i], name)

countFlags(flags, regexps, match) ==
    Cardinality({i \in 1..Len(flags) : match = matchRegexps(regexps, flags[i].Name)})

printFlagsAll(flags, style, regexps, match) ==
    Flatten([i \in 1..Len(flags) |->
        << Pr(" -" \o flags[i].Name \o "="
              \o (IF style = "godoc" THEN flags[i].DefValue ELSE flags[i].Value)),
           Indents1(3),
           Ln(flags[i].Usage),
           Indents0 >>])

printFlags(flags, style, regexps, match) ==
    Flatten([i \in 1..Len(flags) |->
        IF match # matchRegexps(regexps, flags[i].Name) THEN <<>>
        ELSE << Pr(" -" \o flags[i].Name \o "="
                   \o (IF style = "godoc" THEN flags[i].DefValue ELSE flags[i].Value)),
                Indents1(3),
                Ln(flags[i].Usage),
                Indents0 >>])

fullhelpAlwaysHelp(path) ==
    "Run \"" \o pathName(path) \o " help -style=full\" to show all global flags."

\* The reminder of flagsUsage that more global flags exist.
fullhelp(path) ==
    LET cmd == Cmd(Last(path))
        cmdPath == pathName(path)
    IN  IF Len(cmd.Children) = 0
        THEN IF Len(path) > 1
             THEN "Run \"" \o pathName(SubSeq(path, 1, Len(path) - 1))
                  \o " help -style=full " \o cmd.Name \o "\" to show all global flags."
             ELSE "Run \"CMDLINE_STYLE=full " \o cmdPath \o " -help\" to show all global flags."
        ELSE "Run \"" \o cmdPath \o " help -style=full\" to show all global flags."

flagsUsage(path, firstCall) ==
    LET cmd == Cmd(Last(path))
        cmdPath == pathName(path)
        own == IF countFlags(cmd.Flags, NilRegexps, TRUE) > 0
               THEN << Ln(""), Ln("The " \o cmdPath \o " flags are:") >>
                    \o printFlags(cmd.Flags, env.style, NilRegexps, TRUE)
               ELSE <<>>
        hasCompact == countFlags(globalFlags, nonHiddenGlobalFlags, TRUE) > 0
        hasFull == countFlags(globalFlags, nonHiddenGlobalFlags, FALSE) > 0
    IN  IF ~firstCall THEN own
        ELSE IF env.style # "compact"
        THEN own
             \o (IF hasCompact \/ hasFull
                 THEN << Ln(""), Ln("The global flags are:") >>
                      \o printFlags(globalFlags, env.style, nonHiddenGlobalFlags, TRUE)
                      \o (IF hasCompact /\ hasFull THEN <<Ln("")>> ELSE <<>>)
                      \o printFlags(globalFlags, env.style, nonHiddenGlobalFlags, FALSE)
                 ELSE <<>>)
        ELSE own
             \o (IF hasCompact
                 THEN << Ln(""), Ln("The global flags are:") >>
                      \o printFlags(globalFlags, env.style, nonHiddenGlobalFlags, TRUE)
                 ELSE <<>>)
             \o (IF hasFull THEN << Ln(""), Ln(fullhelp(path)) >> ELSE <<>>)

-----------------------------------------------------------------------------
(* External executables.                                                   *)

\* lookPath(name, dirs): whether the executable is in a directory of PATH.
lookPath(subCmd) == \E i \in 1..Len(env.pathDirs) : env.pathDirs[i] = subCmd

\* cmd.subNames(): the names of the built-in children.
subNames(cmd) == {Cmd(cmd.Children[i]).Name : i \in 1..Len(cmd.Children)}

\* lookPathAll(name, dirs, names): the executables called <name>-<sub> whose
\* <sub> is not the name of a built-in child, in the order of their names.
lookPathAll(name, names) ==
    SelectSeq(env.pathDirs,
              LAMBDA x : HasPrefix(x, name \o "-") /\ TrimPrefix(x, name \o "-") \notin names)

Understands(kind, args) ==
    IF args = <<"-help">> THEN kind \in {"cmdline", "flagonly"}
    ELSE kind \in {"cmdline", "helponly"}

\* binaryRunner.Run: the exit status of the executable and the text it writes
\* to the stdout and stderr it is given.
Run(bin, args, envVars) ==
    LET ok == Understands(env.behave[bin], args)
    IN  [ok |-> ok,
         text |-> IF ~ok THEN bin \o ": cannot " \o Join(args, " ") \o "\n"
                  ELSE IF env.behave[bin] = "flagonly"
                  THEN "Usage of " \o bin \o ":\n  -x\tan option\n"
                  ELSE IF envVars.CMDLINE_STYLE = "short" THEN "Short of " \o bin \o "\n"
                  ELSE "Output of " \o bin \o " " \o Join(args, " ")
                       \o " in style " \o envVars.CMDLINE_STYLE \o "\n"]

\* One entry of the record of processes run: the executable, its arguments,
\* the Vars of the Env it got, where its output went and the caller.
Call(bin, args, envVars, sink, by) ==
    [bin |-> bin, args |-> args, Vars |-> envVars, sink |-> sink, by |-> by]

NoError == [failed |-> FALSE, msg |-> ""]
ExitError(bin) == [failed |-> TRUE, msg |-> bin \o ": exit status 1"]

-----------------------------------------------------------------------------
(* usage                                                                   *)

MaxOf(S) == CHOOSE m \in S : \A x \in S : x <= m

minNameWidth == 11

needsHelpChildOrLookPath(cmd) ==
    /\ \A i \in 1..Len(cmd.Children) : Cmd(cmd.Children[i]).Name # helpName
    /\ (Len(cmd.Children) > 0 \/ cmd.LookPath)

needsHelpChild(cmd) ==
    /\ \A i \in 1..Len(cmd.Children) : Cmd(cmd.Children[i]).Name # helpName
    /\ Len(cmd.Children) > 0

\* printShort of usage: one row of a table, the name padded to nameWidth.
printShort(nameWidth, name, short) ==
    << Pr(PadRight(name, nameWidth) \o " " \o short), FlushOp >>

nameWidthOfChildren(cmd, subCmds) ==
    MaxOf({minNameWidth}
          \cup {Len(Cmd(cmd.Children[i]).Name) : i \in 1..Len(cmd.Children)})

\* The name width of the sub-command table.
nameWidthOf(cmd, subCmds) ==
    MaxOf({minNameWidth}
          \cup {Len(Cmd(cmd.Children[i]).Name) : i \in 1..Len(cmd.Children)}
          \cup {Len(TrimPrefix(subCmds[i], cmd.Name \o "-")) : i \in 1..Len(subCmds)})

\* The Vars of the cloned Env a table row's executable is run with.
rowVars == [env.Vars EXCEPT !.CMDLINE_STYLE = "short"]

binaryShortIgnoresError(subCmd) == Run(subCmd, <<"-help">>, rowVars).text

\* The description of the row of an executable: what it wrote when run with
\* -help in style short, or missingDescription when that run failed.
binaryShort(subCmd) ==
    LET r == Run(subCmd, <<"-help">>, rowVars)
    IN  IF r.ok THEN r.text ELSE missingDescription

shortStyleReturnLong(path) == <<Ln(Cmd(Last(path)).Long)>>

\* The short style of usage: the short description and nothing else.
shortStyleReturn(path) == <<Ln(Cmd(Last(path)).Short)>>

usageLinePrefixOfPath(path) ==
    "   " \o pathName(path)
    \o (IF \E i \in 1..Len(path) : countFlags(Cmd(path[i]).Flags, NilRegexps, TRUE) > 0
        THEN " [flags]" ELSE "")

\* cmdPathF of usage: the start of the lines under "Usage:".
usageLinePrefix(path) ==
    "   " \o pathName(path)
    \o (IF countFlags(Cmd(Last(path)).Flags, NilRegexps, TRUE) > 0 THEN " [flags]" ELSE "")

\* usage(w, path, config, firstCall): the operations on w and the processes run.
usage(path, firstCall) ==
    LET cmd == Cmd(Last(path))
        cmdPath == pathName(path)
        cmdPathF == usageLinePrefix(path)
        subCmds == IF cmd.LookPath THEN lookPathAll(cmd.Name, subNames(cmd)) ELSE <<>>
        hasSubcommands == Len(subCmds) > 0 \/ Len(cmd.Children) > 0
        nameWidth == nameWidthOf(cmd, subCmds)
        topicWidth == MaxOf({minNameWidth} \cup {Len(cmd.Topics[i].Name) : i \in 1..Len(cmd.Topics)})
    IN  IF env.style = "short"
        THEN [w |-> shortStyleReturn(path), calls |-> <<>>]
        ELSE [calls |-> [i \in 1..Len(subCmds) |->
                            Call(subCmds[i], <<"-help">>, rowVars, "buffer", "usage")],
              w |->
                 (IF ~firstCall
                  THEN lineBreak(env.style)
                       \o << Verbatim(TRUE), Ln(godocHeader(cmdPath, cmd.Short)),
                             Verbatim(FALSE), Ln("") >>
                  ELSE <<>>)
              \o << Ln(cmd.Long), Ln(""), Ln("Usage:") >>
              \o (IF cmd.Runner
                  THEN IF cmd.ArgsName # "" THEN <<Ln(cmdPathF \o " " \o cmd.ArgsName)>>
                       ELSE <<Ln(cmdPathF)>>
                  ELSE <<>>)
              \o (IF hasSubcommands THEN <<Ln(cmdPathF \o " <command>")>> ELSE <<>>)
              \o (IF hasSubcommands
                  THEN << Ln(""), Ln("The " \o cmdPath \o " commands are:"),
                          Indents2(3, 3 + nameWidth + 1) >>
                  ELSE <<>>)
              \o Flatten([i \in 1..Len(cmd.Children) |->
                    printShort(nameWidth, Cmd(cmd.Children[i]).Name, Cmd(cmd.Children[i]).Short)])
              \o Flatten([i \in 1..Len(subCmds) |->
                    printShort(nameWidth, TrimPrefix(subCmds[i], cmd.Name \o "-"),
                               binaryShort(subCmds[i]))])
              \o (IF firstCall /\ needsHelpChild(cmd)
                  THEN printShort(nameWidth, newCommand.Name, newCommand.Short)
                  ELSE <<>>)
              \o (IF hasSubcommands
                  THEN <<Indents0>>
                       \o (IF firstCall /\ env.style # "godoc"
                           THEN <<Ln("Run \"" \o cmdPath \o " help [command]\" for command usage.")>>
                           ELSE <<>>)
                  ELSE <<>>)
              \o (IF cmd.Runner /\ cmd.ArgsLong # ""
                  THEN << Ln(""), Ln(cmd.ArgsLong) >>
                  ELSE <<>>)
              \o (IF Len(cmd.Topics) > 0
                  THEN << Ln(""), Ln("The " \o cmdPath \o " additional help topics are:"),
                          Indents2(3, 3 + topicWidth + 1) >>
                       \o Flatten([i \in 1..Len(cmd.Topics) |->
                             << Pr(PadRight(cmd.Topics[i].Name, topicWidth) \o " "
                                   \o cmd.Topics[i].Short),
                                FlushOp >>])
                       \o <<Indents0>>
                       \o (IF firstCall /\ env.style # "godoc"
                           THEN <<Ln("Run \"" \o cmdPath \o " help [topic]\" for topic details.")>>
                           ELSE <<>>)
                  ELSE <<>>)
              \o flagsUsage(path, firstCall)]

-----------------------------------------------------------------------------
(* usageAll                                                                *)

\* The results of a sequence of renders, one after the other.
CatAll(rs) ==
    [w |-> Flatten([i \in 1..Len(rs) |-> rs[i].w]),
     calls |-> Flatten([i \in 1..Len(rs) |-> rs[i].calls])]

dumpVarsNoFirstCall == [env.Vars EXCEPT !.CMDLINE_STYLE = env.style]

\* The Vars of the cloned Env an executable is run with during a dump.
dumpVars == [env.Vars EXCEPT !.CMDLINE_FIRST_CALL = "1", !.CMDLINE_STYLE = env.style]

dumpBinaryNoFallback(subCmd, cmd, cmdPath) ==
    LET first == Run(subCmd, <<helpName, "...">>, dumpVars)
        call1 == Call(subCmd, <<helpName, "...">>, dumpVars, "buffer", "usageAll")
        blank == IF env.style = "godoc" THEN <<Ln("")>> ELSE <<>>
    IN  IF first.ok
        THEN [w |-> blank \o <<Pr(first.text)>>, calls |-> <<call1>>]
        ELSE [w |-> lineBreak(env.style)
                    \o <<Ln(godocHeader(cmdPath \o " " \o TrimPrefix(subCmd, cmd.Name \o "-"),
                                        missingDescription))>>,
              calls |-> <<call1>>]

\* The body of usageAll's loop over the executables, for one executable.
dumpBinaryNoReset(subCmd, cmd, cmdPath) ==
    LET first == Run(subCmd, <<helpName, "...">>, dumpVars)
        second == Run(subCmd, <<"-help">>, dumpVars)
        call1 == Call(subCmd, <<helpName, "...">>, dumpVars, "buffer", "usageAll")
        call2 == Call(subCmd, <<"-help">>, dumpVars, "buffer", "usageAll")
        buffer1 == first.text
        buffer2 == first.text \o second.text
        blank == IF env.style = "godoc" THEN <<Ln("")>> ELSE <<>>
    IN  IF first.ok
        THEN [w |-> blank \o <<Pr(buffer1)>>, calls |-> <<call1>>]
        ELSE IF second.ok
        THEN [w |-> blank \o <<Pr(buffer2)>>, calls |-> <<call1, call2>>]
        ELSE [w |-> lineBreak(env.style)
                    \o <<Ln(godocHeader(cmdPath \o " " \o TrimPrefix(subCmd, cmd.Name \o "-"),
                                        missingDescription))>>,
              calls |-> <<call1, call2>>]

dumpBinary(subCmd, cmd, cmdPath) ==
    LET first == Run(subCmd, <<helpName, "...">>, dumpVars)
        second == Run(subCmd, <<"-help">>, dumpVars)
        call1 == Call(subCmd, <<helpName, "...">>, dumpVars, "buffer", "usageAll")
        call2 == Call(subCmd, <<"-help">>, dumpVars, "buffer", "usageAll")
        \* buffer.String() after each run; buffer.Reset() lies between the two
        buffer1 == first.text
        buffer2 == "" \o second.text
        blank == IF env.style = "godoc" THEN <<Ln("")>> ELSE <<>>
    IN  IF first.ok
        THEN [w |-> blank \o <<Pr(buffer1)>>, calls |-> <<call1>>]
        ELSE IF second.ok
        THEN [w |-> blank \o <<Pr(buffer2)>>, calls |-> <<call1, call2>>]
        ELSE [w |-> lineBreak(env.style)
                    \o <<Ln(godocHeader(cmdPath \o " " \o TrimPrefix(subCmd, cmd.Name \o "-"),
                                        missingDescription))>>,
              calls |-> <<call1, call2>>]

\* The section usageAll writes for one topic.
topicSection(cmdPath, topic) ==
    lineBreak(env.style)
    \o << Verbatim(TRUE), Ln(godocHeader(cmdPath \o " " \o topic.Name, topic.Short)),
          Verbatim(FALSE), Ln(""), Ln(topic.Long) >>

usageAllOneLevel(path, firstCall) ==
    LET cmd == Cmd(Last(path))
    IN  CatAll(
            <<usage(path, firstCall)>>
            \o [i \in 1..Len(cmd.Topics) |->
                   [w |-> topicSection(pathName(path), cmd.Topics[i]), calls |-> <<>>]])

RECURSIVE usageAll(_, _)
usageAllKeepsFirstCall(path, firstCall) ==
    LET cmd == Cmd(Last(path))
        cmdPath == pathName(path)
        subCmds == IF cmd.LookPath THEN lookPathAll(cmd.Name, subNames(cmd)) ELSE <<>>
    IN  CatAll(
            <<usage(path, firstCall)>>
            \o [i \in 1..Len(cmd.Children) |->
                   usageAll(Append(path, cmd.Children[i]), firstCall)]
            \o [i \in 1..Len(subCmds) |-> dumpBinary(subCmds[i], cmd, cmdPath)]
            \o (IF firstCall /\ needsHelpChild(cmd)
                THEN <<usageAll(Append(path, HelpId), FALSE)>>
                ELSE <<>>)
            \o [i \in 1..Len(cmd.Topics) |->
                   [w |-> topicSection(cmdPath, cmd.Topics[i]), calls |-> <<>>]])

usageAllHelpLast(path, firstCall) ==
    LET cmd == Cmd(Last(path))
        cmdPath == pathName(path)
        subCmds == IF cmd.LookPath THEN lookPathAll(cmd.Name, subNames(cmd)) ELSE <<>>
    IN  CatAll(
            <<usage(path, firstCall)>>
            \o [i \in 1..Len(cmd.Children) |->
                   usageAll(Append(path, cmd.Children[i]), FALSE)]
            \o [i \in 1..Len(subCmds) |-> dumpBinary(subCmds[i], cmd, cmdPath)]
            \o [i \in 1..Len(cmd.Topics) |->
                   [w |-> topicSection(cmdPath, cmd.Topics[i]), calls |-> <<>>]]
            \o (IF firstCall /\ needsHelpChild(cmd)
                THEN <<usageAll(Append(path, HelpId), FALSE)>>
                ELSE <<>>))

usageAll(path, firstCall) ==
    LET cmd == Cmd(Last(path))
        cmdPath == pathName(path)
        subCmds == IF cmd.LookPath THEN lookPathAll(cmd.Name, subNames(cmd)) ELSE <<>>
    IN  CatAll(
            <<usage(path, firstCall)>>
            \o [i \in 1..Len(cmd.Children) |-> usageAll(Append(path, cmd.Children[i]), FALSE)]
            \o [i \in 1..Len(subCmds) |-> dumpBinary(subCmds[i], cmd, cmdPath)]
            \o (IF firstCall /\ needsHelpChild(cmd)
                THEN <<usageAll(Append(path, HelpId), FALSE)>>
                ELSE <<>>)
            \o [i \in 1..Len(cmd.Topics) |->
                   [w |-> topicSection(cmdPath, cmd.Topics[i]), calls |-> <<>>]])

-----------------------------------------------------------------------------
(* runHelp                                                                 *)

usageFuncOfRoot(path) ==
    LET r == usage(<<path[1]>>, env.firstCall)
    IN  [w |-> r.w \o <<FlushOp>>, calls |-> r.calls]

\* helpRunner.usageFunc(writer): the usage of the last command of the path,
\* written to a new line writer on writer, which is then flushed.
usageFunc(path) ==
    LET r == usage(path, env.firstCall)
    IN  [w |-> r.w \o <<FlushOp>>, calls |-> r.calls]

\* usageErrorf(stderr, fn, format, args...): the message and then fn's usage
\* are written to stderr, and the error is returned.
usageErrorf(fn, msg) ==
    [w |-> <<>>,
     err |-> <<Pr("ERROR: " \o msg \o "\n\n")>> \o fn.w,
     calls |-> fn.calls,
     ret |-> [failed |-> TRUE, msg |-> msg]]

delegateArgsFlagOnly(subArgs) == <<"-help">>

\* The arguments runHelp gives the executable it delegates to.
delegateArgs(subArgs) ==
    IF Len(subArgs) = 0 THEN <<"-help">> ELSE <<helpName>> \o subArgs

delegateVars == [env.Vars EXCEPT !.CMDLINE_STYLE = env.style]

childNamedSkipsFirst(cmd, subName) ==
    LET hits == {i \in 2..Len(cmd.Children) : Cmd(cmd.Children[i]).Name = subName}
    IN  IF hits = {} THEN 0 ELSE CHOOSE i \in hits : \A j \in hits : i <= j

\* The index of the first built-in child called subName, 0 if there is none.
childNamed(cmd, subName) ==
    LET hits == {i \in 1..Len(cmd.Children) : Cmd(cmd.Children[i]).Name = subName}
    IN  IF hits = {} THEN 0 ELSE CHOOSE i \in hits : \A j \in hits : i <= j

topicNamed(cmd, subName) ==
    LET hits == {i \in 1..Len(cmd.Topics) : cmd.Topics[i].Name = subName}
    IN  IF hits = {} THEN 0 ELSE CHOOSE i \in hits : \A j \in hits : i <= j

RECURSIVE runHelp(_, _)
runHelpTopicFirst(args, path) ==
    IF Len(args) = 0
    THEN LET r == usage(path, env.firstCall)
         IN  [w |-> r.w, err |-> <<>>, calls |-> r.calls, ret |-> NoError]
    ELSE IF args[1] = "..."
    THEN LET r == usageAll(path, env.firstCall)
         IN  [w |-> r.w, err |-> <<>>, calls |-> r.calls, ret |-> NoError]
    ELSE
    LET cmd == Cmd(Last(path))
        subName == args[1]
        subArgs == Tail(args)
        child == childNamed(cmd, subName)
        subCmd == cmd.Name \o "-" \o subName
        topic == topicNamed(cmd, subName)
    IN  IF child # 0 THEN runHelp(subArgs, Append(path, cmd.Children[child]))
        ELSE IF helpName = subName THEN runHelp(subArgs, Append(path, HelpId))
        ELSE IF topic # 0
        THEN [w |-> <<Ln(cmd.Topics[topic].Long)>>, err |-> <<>>, calls |-> <<>>,
              ret |-> NoError]
        ELSE IF cmd.LookPath /\ lookPath(subCmd)
        THEN LET r == Run(subCmd, delegateArgs(subArgs), delegateVars)
             IN  [w |-> IF r.ok THEN <<Ext(r.text)>> ELSE <<>>,
                  err |-> IF r.ok THEN <<>> ELSE <<Ext(r.text)>>,
                  calls |-> <<Call(subCmd, delegateArgs(subArgs), delegateVars,
                                   "stdout", "runHelp")>>,
                  ret |-> IF r.ok THEN NoError ELSE ExitError(subCmd)]
        ELSE usageErrorf(usageFunc(path),
                         pathName(path) \o ": unknown command or topic \"" \o subName \o "\"")

runHelpTopicWalksOn(args, path) ==
    IF Len(args) = 0
    THEN LET r == usage(path, env.firstCall)
         IN  [w |-> r.w, err |-> <<>>, calls |-> r.calls, ret |-> NoError]
    ELSE IF args[1] = "..."
    THEN LET r == usageAll(path, env.firstCall)
         IN  [w |-> r.w, err |-> <<>>, calls |-> r.calls, ret |-> NoError]
    ELSE
    LET cmd == Cmd(Last(path))
        subName == args[1]
        subArgs == Tail(args)
        child == childNamed(cmd, subName)
        subCmd == cmd.Name \o "-" \o subName
        topic == topicNamed(cmd, subName)
    IN  IF child # 0 THEN runHelp(subArgs, Append(path, cmd.Children[child]))
        ELSE IF helpName = subName THEN runHelp(subArgs, Append(path, HelpId))
        ELSE IF cmd.LookPath /\ lookPath(subCmd)
        THEN LET r == Run(subCmd, delegateArgs(subArgs), delegateVars)
             IN  [w |-> IF r.ok THEN <<Ext(r.text)>> ELSE <<>>,
                  err |-> IF r.ok THEN <<>> ELSE <<Ext(r.text)>>,
                  calls |-> <<Call(subCmd, delegateArgs(subArgs), delegateVars,
                                   "stdout", "runHelp")>>,
                  ret |-> IF r.ok THEN NoError ELSE ExitError(subCmd)]
        ELSE IF topic # 0
        THEN LET r == IF subArgs = <<>> THEN [w |-> <<>>, err |-> <<>>, calls |-> <<>>, ret |-> NoError]
                      ELSE runHelp(subArgs, path)
             IN  [w |-> <<Ln(cmd.Topics[topic].Long)>> \o r.w, err |-> r.err,
                  calls |-> r.calls, ret |-> r.ret]
        ELSE usageErrorf(usageFunc(path),
                         pathName(path) \o ": unknown command or topic \"" \o subName \o "\"")

runHelp(args, path) ==
    IF Len(args) = 0
    THEN LET r == usage(path, env.firstCall)
         IN  [w |-> r.w, err |-> <<>>, calls |-> r.calls, ret |-> NoError]
    ELSE IF args[1] = "..."
    THEN LET r == usageAll(path, env.firstCall)
         IN  [w |-> r.w, err |-> <<>>, calls |-> r.calls, ret |-> NoError]
    ELSE
    LET cmd == Cmd(Last(path))
        subName == args[1]
        subArgs == Tail(args)
        child == childNamed(cmd, subName)
        subCmd == cmd.Name \o "-" \o subName
        topic == topicNamed(cmd, subName)
    IN  IF child # 0 THEN runHelp(subArgs, Append(path, cmd.Children[child]))
        ELSE IF helpName = subName THEN runHelp(subArgs, Append(path, HelpId))
        ELSE IF cmd.LookPath /\ lookPath(subCmd)
        THEN LET r == Run(subCmd, delegateArgs(subArgs), delegateVars)
             IN  [w |-> IF r.ok THEN <<Ext(r.text)>> ELSE <<>>,
                  err |-> IF r.ok THEN <<>> ELSE <<Ext(r.text)>>,
                  calls |-> <<Call(subCmd, delegateArgs(subArgs), delegateVars,
                                   "stdout", "runHelp")>>,
                  ret |-> IF r.ok THEN NoError ELSE ExitError(subCmd)]
        ELSE IF topic # 0
        THEN [w |-> <<Ln(cmd.Topics[topic].Long)>>, err |-> <<>>, calls |-> <<>>,
              ret |-> NoError]
        ELSE usageErrorf(usageFunc(path),
                         pathName(path) \o ": unknown command or topic \"" \o subName \o "\"")

-----------------------------------------------------------------------------
(* The state machine.                                                      *)

\* The paths from the root to the nodes of the tree.
RECURSIVE PathsBelow(_)
PathsBelow(path) ==
    {path} \cup UNION {PathsBelow(Append(path, tree[Last(path)].Children[i])) :
                          i \in 1..Len(tree[Last(path)].Children)}

ValidPaths == PathsBelow(<<1>>)

NoRequest ==
    [op |-> "none", path |-> <<>>, args |-> <<>>, firstCall |-> FALSE,
     hpath |-> "", hshort |-> ""]

\* No request is being walked.
NoSteps == [op |-> "none", path |-> <<>>, args |-> <<>>, firstCall |-> FALSE,
            runHelp |-> 0, usageAll |-> 0, usage |-> 0]

NoWalk ==
    /\ stack = <<>>
    /\ heap = <<>>
    /\ lookups = <<>>
    /\ runs = <<>>
    /\ steps = NoSteps

\* How the executables on PATH behave, one choice per environment.
Behaviours(t) ==
    IF t = TreeExtOnly
    THEN { ("root-extra" :> a) @@ ("root-extraordinary" :> b) :
              a \in Kinds, b \in {"cmdline", "broken"} }
    ELSE IF t = TreeMixed
    THEN { ("one-more" :> "cmdline") @@ ("root-..." :> b) @@ ("root-build" :> "cmdline")
           @@ ("root-extra" :> a) : a \in {"cmdline", "broken"}, b \in {"flagonly", "broken"} }
    ELSE { <<>> }

\* The style and width a help request is made with.
StyleWidths ==
    {<<s, 4>> : s \in Styles} \cup {<<"compact", -1>>}

\* The settings of the hidden global flags made before help is asked for:
\* none made, or all flags but "v" hidden.
HideSettings == {NilRegexps, Regexps(<<{"v"}>>)}

\* The variables of the Env of the process: CMDLINE_FIRST_CALL is set in a
\* process that is not the first call.
ParentVars(fc) ==
    [CMDLINE_STYLE |-> "", CMDLINE_FIRST_CALL |-> IF fc THEN "" ELSE "1"]

Init ==
    /\ tree \in Trees
    /\ \E sw \in StyleWidths, fc \in BOOLEAN, bh \in Behaviours(tree) :
          env = [style |-> sw[1], width |-> sw[2], firstCall |-> fc,
                 Vars |-> ParentVars(fc),
                 pathDirs |-> PathOf(tree), behave |-> bh]
    /\ nonHiddenGlobalFlags \in HideSettings
    /\ hideCalls = IF nonHiddenGlobalFlags.isNil THEN <<>> ELSE <<nonHiddenGlobalFlags.rs>>
    /\ req = NoRequest
    /\ out = <<>>
    /\ errOut = <<>>
    /\ calls = <<>>
    /\ ret = NoError
    /\ hdr = ""
    /\ NoWalk

\* A process serves one help request and exits: a request is made from the
\* initial state only.

\* helpRunner.Run: help [args] asked of the command at the end of path.
RunHelp ==
    /\ req = NoRequest
    /\ \E path \in ValidPaths, args \in SeqsUpTo(SegsOf(tree), MaxArgs) :
        LET r == runHelp(args, path)
        IN  /\ req' = [NoRequest EXCEPT !.op = "runHelp", !.path = path, !.args = args,
                                        !.firstCall = env.firstCall]
            /\ out' = r.w
            /\ errOut' = r.err
            /\ calls' = r.calls
            /\ ret' = r.ret
            /\ UNCHANGED <<tree, env, nonHiddenGlobalFlags, hideCalls, hdr, stack, heap, lookups, runs, steps>>

\* usage called for the command at the end of path.
Usage ==
    /\ req = NoRequest
    /\ \E path \in ValidPaths, fc \in BOOLEAN :
        LET r == usage(path, fc)
        IN  /\ req' = [NoRequest EXCEPT !.op = "usage", !.path = path, !.firstCall = fc]
            /\ out' = r.w
            /\ errOut' = <<>>
            /\ calls' = r.calls
            /\ ret' = NoError
            /\ UNCHANGED <<tree, env, nonHiddenGlobalFlags, hideCalls, hdr, stack, heap, lookups, runs, steps>>

\* usageAll called for the command at the end of path.
UsageAll ==
    /\ req = NoRequest
    /\ \E path \in ValidPaths, fc \in BOOLEAN :
        LET r == usageAll(path, fc)
        IN  /\ req' = [NoRequest EXCEPT !.op = "usageAll", !.path = path, !.firstCall = fc]
            /\ out' = r.w
            /\ errOut' = <<>>
            /\ calls' = r.calls
            /\ ret' = NoError
            /\ UNCHANGED <<tree, env, nonHiddenGlobalFlags, hideCalls, hdr, stack, heap, lookups, runs, steps>>

Next == RunHelp \/ Usage \/ UsageAll

Spec == Init /\ [][Next]_vars

-----------------------------------------------------------------------------
(* godocHeader as a function of its two arguments.                         *)

\* The characters the arguments of godocHeader are made of.
HdrChars == {"a", "s", "3", ".", "'", ":"}

RECURSIVE StringsUpTo(_)
StringsUpTo(n) ==
    IF n = 0 THEN {""}
    ELSE LET shorter == StringsUpTo(n - 1)
         IN  shorter \cup {s \o c : s \in {q \in shorter : Len(q) = n - 1}, c \in HdrChars}

InitHeader ==
    /\ tree = TreePlain
    /\ env = [style |-> "godoc", width |-> 4, firstCall |-> TRUE,
              Vars |-> [CMDLINE_STYLE |-> "", CMDLINE_FIRST_CALL |-> ""],
              pathDirs |-> <<>>, behave |-> <<>>]
    /\ nonHiddenGlobalFlags = NilRegexps
    /\ hideCalls = <<>>
    /\ req = NoRequest
    /\ out = <<>>
    /\ errOut = <<>>
    /\ calls = <<>>
    /\ ret = NoError
    /\ hdr = ""
    /\ NoWalk

GodocHeader ==
    /\ req = NoRequest
    /\ \E path \in StringsUpTo(MaxHdrLen), short \in StringsUpTo(MaxHdrLen) :
        /\ req' = [NoRequest EXCEPT !.op = "godocHeader", !.hpath = path, !.hshort = short]
        /\ hdr' = godocHeader(path, short)
        /\ UNCHANGED <<tree, env, nonHiddenGlobalFlags, hideCalls, out, errOut, calls, ret, stack, heap, lookups, runs, steps>>

NextHeader == GodocHeader

SpecHeader == InitHeader /\ [][NextHeader]_vars

-----------------------------------------------------------------------------
(* Calls of HideGlobalFlagsExcept followed by a usage.                     *)

\* The regexps given to one call of HideGlobalFlagsExcept.
HideArgs == {<<>>, <<{"v"}>>, <<{"log"}>>}

InitHide ==
    /\ tree = TreePlain
    /\ \E sw \in StyleWidths :
          env = [style |-> sw[1], width |-> sw[2], firstCall |-> TRUE,
                 Vars |-> [CMDLINE_STYLE |-> "", CMDLINE_FIRST_CALL |-> ""],
                 pathDirs |-> <<>>, behave |-> <<>>]
    /\ nonHiddenGlobalFlags = NilRegexps
    /\ hideCalls = <<>>
    /\ req = NoRequest
    /\ out = <<>>
    /\ errOut = <<>>
    /\ calls = <<>>
    /\ ret = NoError
    /\ hdr = ""
    /\ NoWalk

\* HideGlobalFlagsExcept called before help is asked for.
Hide ==
    /\ req = NoRequest
    /\ Len(hideCalls) < MaxHideCalls
    /\ \E regexps \in HideArgs :
          /\ nonHiddenGlobalFlags' = HideGlobalFlagsExcept(nonHiddenGlobalFlags, regexps)
          /\ hideCalls' = Append(hideCalls, regexps)
    /\ UNCHANGED <<tree, env, req, out, errOut, calls, ret, hdr, stack, heap, lookups, runs, steps>>

NextHide == Hide \/ Usage

SpecHide == InitHide /\ [][NextHide]_vars

-----------------------------------------------------------------------------
(* The calls of one request, one at a time.                                *)
(*                                                                         *)
(* runHelp and usageAll call themselves with append(path, child).  Here    *)
(* every call is a frame of a stack, a path is a Go slice (a backing array *)
(* and a length), and every search of PATH and every process run is        *)
(* recorded with the node it was made for.                                 *)

\* Deepest stack of calls walked.
MaxStack == 6

\* What the slots of a backing array beyond the length of the slice hold.
Nil == -1

\* The spare capacity of the slice the caller holds.
Spares == {0, 1}

\* The elements of the slice s of the heap h, and its capacity.
View(h, s) == SubSeq(h[s.a], 1, s.len)
Cap(h, s) == Len(h[s.a])

appendOverLast(h, s, x) ==
    [heap |-> [h EXCEPT ![s.a][s.len] = x], s |-> s]

\* append(path, x) of Go: x is written after the elements of the slice, in
\* the backing array itself when it has room and in a new one, twice as
\* large, when it has none.  The slice given is not changed; the new one is
\* returned.
append(h, s, x) ==
    IF s.len < Cap(h, s)
    THEN [heap |-> [h EXCEPT ![s.a][s.len + 1] = x],
          s |-> [a |-> s.a, len |-> s.len + 1]]
    ELSE LET newcap == MaxOf({2 * Cap(h, s), s.len + 1})
         IN  [heap |-> Append(h, View(h, s) \o <<x>>
                                 \o [i \in 1..(newcap - s.len - 1) |-> Nil]),
              s |-> [a |-> Len(h) + 1, len |-> s.len + 1]]

searchesPathAlways(cmd) == TRUE

\* cmd.LookPath, the guard of every search of PATH.
searchesPath(cmd) == cmd.LookPath

subArgsSame(args) == args

\* args[1:], the segments left to the next call of runHelp.
subArgsOf(args) == Tail(args)

\* One call in progress: the function, its arguments, and where it stands.
\* entry is the path as it was when the call was made.
Frame(fn, args, s, entry, firstCall) ==
    [fn |-> fn, args |-> args, path |-> s, entry |-> entry, firstCall |-> firstCall,
     pc |-> "start", i |-> 1]

Top == stack[Len(stack)]

\* One search of PATH and one process run, with the node they are made for.
Look(n, name) == [node |-> n, name |-> name]
RunOf(n, bin) == [node |-> n, bin |-> bin]

\* What usage does with PATH: nothing in short style; otherwise it searches
\* PATH for a node that asks for it, and runs what it finds for the table.
usageLooks(path) ==
    IF env.style # "short" /\ searchesPath(Cmd(Last(path)))
    THEN <<Look(Last(path), "*")>> ELSE <<>>

usageRuns(path, firstCall) ==
    LET cmd == Cmd(Last(path))
        subCmds == IF env.style # "short" /\ searchesPath(cmd)
                   THEN lookPathAll(cmd.Name, subNames(cmd)) ELSE <<>>
    IN  [k \in 1..Len(subCmds) |-> RunOf(Last(path), subCmds[k])]

\* The probes usageAll makes of one executable: help ..., and -help when
\* that fails.
dumpRuns(n, subCmd) ==
    IF Run(subCmd, <<helpName, "...">>, dumpVars).ok
    THEN <<RunOf(n, subCmd)>>
    ELSE <<RunOf(n, subCmd), RunOf(n, subCmd)>>

\* The executables on PATH of a walk: those of the tree, and for the plain
\* tree, whose nodes do not search PATH, executables with the names its
\* nodes would search for.
WalkPathOf(t) ==
    IF t = TreePlain THEN << "build-nope", "root-build", "root-nope" >>
    ELSE IF t = TreeMixed THEN << "build-extra" >> \o PathOf(t)
    ELSE PathOf(t)

WalkBehaviours(t) ==
    IF t = TreePlain
    THEN { ("build-nope" :> "cmdline") @@ ("root-build" :> "cmdline")
           @@ ("root-nope" :> "cmdline") }
    ELSE IF t = TreeMixed
    THEN { ("build-extra" :> "cmdline") @@ ("one-more" :> "cmdline")
           @@ ("root-..." :> "flagonly") @@ ("root-build" :> "cmdline")
           @@ ("root-extra" :> a) : a \in {"cmdline", "broken"} }
    ELSE IF t = TreeExtOnly
    THEN { ("root-extra" :> a) @@ ("root-extraordinary" :> "cmdline") :
              a \in {"cmdline", "broken"} }
    ELSE { <<>> }

InitWalk ==
    /\ tree \in Trees
    /\ \E style \in {"compact", "short"}, fc \in BOOLEAN, bh \in WalkBehaviours(tree) :
          env = [style |-> style, width |-> defaultWidth, firstCall |-> fc,
                 Vars |-> ParentVars(fc),
                 pathDirs |-> WalkPathOf(tree), behave |-> bh]
    /\ nonHiddenGlobalFlags = NilRegexps
    /\ hideCalls = <<>>
    /\ req = NoRequest
    /\ out = <<>>
    /\ errOut = <<>>
    /\ calls = <<>>
    /\ ret = NoError
    /\ hdr = ""
    /\ NoWalk

\* helpRunner.Run or usageAll is called with a path the caller holds.
WalkRequest ==
    /\ steps.op = "none"
    /\ \E path \in ValidPaths, spare \in Spares :
          LET s == [a |-> 1, len |-> Len(path)]
          IN  /\ heap' = << path \o [i \in 1..spare |-> Nil] >>
              /\ \/ \E args \in SeqsUpTo(SegsOf(tree), MaxArgs) :
                       /\ steps' = [NoSteps EXCEPT !.op = "runHelp", !.path = path,
                                                   !.args = args,
                                                   !.firstCall = env.firstCall,
                                                   !.runHelp = 1]
                       /\ stack' = << Frame("runHelp", args, s, path, env.firstCall) >>
                 \/ \E fc \in BOOLEAN :
                       /\ steps' = [NoSteps EXCEPT !.op = "usageAll", !.path = path,
                                                   !.firstCall = fc, !.usageAll = 1]
                       /\ stack' = << Frame("usageAll", <<>>, s, path, fc) >>
    /\ UNCHANGED <<tree, env, nonHiddenGlobalFlags, hideCalls, req, out, errOut, calls,
                   ret, hdr, lookups, runs>>

\* The calling frame f waits at pc for the call g it makes.
Calls(f, pc, g) == Append([stack EXCEPT ![Len(stack)] = [f EXCEPT !.pc = pc]], g)

\* The frame on top goes on to pc.
Goes(f, pc) == [stack EXCEPT ![Len(stack)] = [f EXCEPT !.pc = pc]]

\* One call of runHelp, up to the call it makes or its return.
RunHelpStep ==
    /\ stack # <<>>
    /\ Top.fn = "runHelp"
    /\ Top.pc = "start"
    /\ LET f == Top
           path == View(heap, f.path)
           cmd == Cmd(Last(path))
       IN  IF Len(f.args) = 0
           THEN /\ stack' = Goes(f, "done")
                /\ lookups' = lookups \o usageLooks(path)
                /\ runs' = runs \o usageRuns(path, env.firstCall)
                /\ steps' = [steps EXCEPT !.usage = @ + 1]
                /\ UNCHANGED heap
           ELSE IF f.args[1] = "..."
           THEN /\ Len(stack) < MaxStack
                /\ stack' = Calls(f, "called",
                                  Frame("usageAll", <<>>, f.path, path, env.firstCall))
                /\ steps' = [steps EXCEPT !.usageAll = @ + 1]
                /\ UNCHANGED <<heap, lookups, runs>>
           ELSE
           LET subName == f.args[1]
               subArgs == subArgsOf(f.args)
               child == childNamed(cmd, subName)
               subCmd == cmd.Name \o "-" \o subName
               next == IF child # 0 THEN cmd.Children[child] ELSE HelpId
               app == append(heap, f.path, next)
           IN  IF child # 0 \/ helpName = subName
               THEN /\ Len(stack) < MaxStack
                    /\ heap' = app.heap
                    /\ stack' = Calls(f, "called",
                                      Frame("runHelp", subArgs, app.s,
                                            View(app.heap, app.s), env.firstCall))
                    /\ steps' = [steps EXCEPT !.runHelp = @ + 1]
                    /\ UNCHANGED <<lookups, runs>>
               ELSE
               LET looked == IF searchesPath(cmd)
                             THEN <<Look(Last(path), subCmd)>> ELSE <<>>
                   found == searchesPath(cmd) /\ lookPath(subCmd)
               IN  /\ stack' = Goes(f, "done")
                   /\ UNCHANGED heap
                   /\ IF found
                      THEN /\ lookups' = lookups \o looked
                           /\ runs' = Append(runs, RunOf(Last(path), subCmd))
                           /\ steps' = steps
                      ELSE IF topicNamed(cmd, subName) # 0
                      THEN /\ lookups' = lookups \o looked
                           /\ runs' = runs
                           /\ steps' = steps
                      ELSE /\ lookups' = lookups \o looked \o usageLooks(path)
                           /\ runs' = runs \o usageRuns(path, env.firstCall)
                           /\ steps' = [steps EXCEPT !.usage = @ + 1]
    /\ UNCHANGED <<tree, env, nonHiddenGlobalFlags, hideCalls, req, out, errOut, calls,
                   ret, hdr>>

\* One call of usageAll, up to the next call it makes or its return: usage
\* of the node, a call for every child, the executables, a call for the help
\* command, the topics.
UsageAllStep ==
    /\ stack # <<>>
    /\ Top.fn = "usageAll"
    /\ Top.pc \in {"start", "children", "binaries", "help", "topics"}
    /\ LET f == Top
           path == View(heap, f.path)
           cmd == Cmd(Last(path))
           cmdPath == pathName(path)
       IN  IF f.pc = "start"
           THEN /\ stack' = Goes(f, "children")
                /\ lookups' = lookups \o usageLooks(path)
                /\ runs' = runs \o usageRuns(path, f.firstCall)
                /\ steps' = [steps EXCEPT !.usage = @ + 1]
                /\ UNCHANGED heap
           ELSE IF f.pc = "children" /\ f.i <= Len(cmd.Children)
           THEN LET app == append(heap, f.path, cmd.Children[f.i])
                IN  /\ Len(stack) < MaxStack
                    /\ heap' = app.heap
                    /\ stack' = Calls(f, "children",
                                      Frame("usageAll", <<>>, app.s,
                                            View(app.heap, app.s), FALSE))
                    /\ steps' = [steps EXCEPT !.usageAll = @ + 1]
                    /\ UNCHANGED <<lookups, runs>>
           ELSE IF f.pc = "children"
           THEN /\ stack' = Goes(f, "binaries")
                /\ UNCHANGED <<heap, lookups, runs, steps>>
           ELSE IF f.pc = "binaries"
           THEN /\ stack' = Goes(f, "help")
                /\ IF searchesPath(cmd)
                   THEN LET subCmds == lookPathAll(cmd.Name, subNames(cmd))
                        IN  /\ lookups' = Append(lookups, Look(Last(path), "*"))
                            /\ runs' = runs \o Flatten([k \in 1..Len(subCmds) |->
                                          dumpRuns(Last(path), subCmds[k])])
                   ELSE UNCHANGED <<lookups, runs>>
                /\ UNCHANGED <<heap, steps>>
           ELSE IF f.pc = "help" /\ f.firstCall /\ needsHelpChild(cmd)
           THEN LET app == append(heap, f.path, HelpId)
                IN  /\ Len(stack) < MaxStack
                    /\ heap' = app.heap
                    /\ stack' = Calls(f, "help",
                                      Frame("usageAll", <<>>, app.s,
                                            View(app.heap, app.s), FALSE))
                    /\ steps' = [steps EXCEPT !.usageAll = @ + 1]
                    /\ UNCHANGED <<lookups, runs>>
           ELSE IF f.pc = "help"
           THEN /\ stack' = Goes(f, "topics")
                /\ UNCHANGED <<heap, lookups, runs, steps>>
           ELSE /\ stack' = Goes(f, "done")
                /\ UNCHANGED <<heap, lookups, runs, steps>>
    /\ UNCHANGED <<tree, env, nonHiddenGlobalFlags, hideCalls, req, out, errOut, calls,
                   ret, hdr>>

\* The call on top returns to its caller: runHelp returns what the call it
\* made returned; usageAll goes on with the next child, or with the topics
\* after the help command.
Return ==
    /\ stack # <<>>
    /\ Top.pc = "done"
    /\ LET rest == SubSeq(stack, 1, Len(stack) - 1)
       IN  IF rest = <<>> THEN stack' = <<>>
           ELSE LET c == rest[Len(rest)]
                    back == IF c.fn = "runHelp" THEN [c EXCEPT !.pc = "done"]
                            ELSE IF c.pc = "children" THEN [c EXCEPT !.i = @ + 1]
                            ELSE [c EXCEPT !.pc = "topics"]
                IN  stack' = [rest EXCEPT ![Len(rest)] = back]
    /\ UNCHANGED <<tree, env, nonHiddenGlobalFlags, hideCalls, req, out, errOut, calls,
                   ret, hdr, heap, lookups, runs, steps>>

NextWalk == WalkRequest \/ RunHelpStep \/ UsageAllStep \/ Return

SpecWalk == InitWalk /\ [][NextWalk]_vars

\* A call that can go on does go on: the control flow is synchronous, and
\* every process run returns.
SpecWalkLive == SpecWalk /\ WF_vars(NextWalk)

-----------------------------------------------------------------------------
(* What the claims speak of.                                               *)

\* The path extended by the built-in children the segments name one after the
\* other; <<>> if a segment names no child of the node reached so far.
RECURSIVE ChildWalk(_, _)
ChildWalk(path, args) ==
    IF args = <<>> THEN path
    ELSE LET kids == Cmd(Last(path)).Children
             hits == {i \in 1..Len(kids) : tree[kids[i]].Name = args[1]}
         IN  IF hits = {} THEN <<>>
             ELSE ChildWalk(Append(path, kids[CHOOSE i \in hits : TRUE]), Tail(args))

\* Where the dispatcher stands when it has consumed the leading segments that
\* name a built-in child or the help command: the node reached and the
\* segments that remain.
RECURSIVE Reached(_, _)
Reached(path, args) ==
    IF args = <<>> \/ args[1] = "..." THEN [path |-> path, rest |-> args]
    ELSE LET step == ChildWalk(path, <<args[1]>>)
         IN  IF step # <<>> THEN Reached(step, Tail(args))
             ELSE IF args[1] = "help" THEN Reached(Append(path, HelpId), Tail(args))
             ELSE [path |-> path, rest |-> args]

IsRunHelp == req.op = "runHelp"

Stand == Reached(req.path, req.args)

StandCmd == Cmd(Last(Stand.path))

\* The request is a dump (help ... or usageAll itself) started at a built-in
\* node.
IsDump ==
    \/ req.op = "usageAll"
    \/ /\ IsRunHelp
       /\ Stand.rest # <<>>
       /\ Stand.rest[1] = "..."
       /\ Last(Stand.path) # HelpId

DumpPath == IF req.op = "usageAll" THEN req.path ELSE Stand.path

\* The texts of the lines written with Fprintln, in order.
LnTexts(ops) ==
    LET lns == SelectSeq(ops, LAMBDA o : o.k = "ln")
    IN  [i \in 1..Len(lns) |-> lns[i].s]

-----------------------------------------------------------------------------
(* C1 *)

\* C1 as stated: whenever every segment names a built-in child of the node
\* reached so far, runHelp writes what usage writes for the extended path and
\* returns no error.
C1_AsStated ==
    (IsRunHelp /\ ChildWalk(req.path, req.args) # <<>>)
        => /\ out = usage(ChildWalk(req.path, req.args), env.firstCall).w
           /\ ret = NoError

\* C1 (amended): whenever no segment is "..." and every segment names a
\* built-in child of the node reached so far, runHelp writes exactly what
\* usage writes for the path extended by those children, with the same style,
\* width and first-call status, runs the same processes, writes nothing to
\* stderr and returns no error.
C1_HelpPathIsUsage ==
    (/\ IsRunHelp
     /\ ChildWalk(req.path, req.args) # <<>>
     /\ \A i \in 1..Len(req.args) : req.args[i] # "...")
        => /\ out = usage(ChildWalk(req.path, req.args), env.firstCall).w
           /\ calls = usage(ChildWalk(req.path, req.args), env.firstCall).calls
           /\ errOut = <<>>
           /\ ret = NoError

C1_Witness ==
    /\ IsRunHelp
    /\ req.path = <<1>>
    /\ req.args = <<"build", "incrementally">>
    /\ ChildWalk(req.path, req.args) = <<1, 2, 4>>
    /\ env.style = "full"
    /\ ~env.firstCall
    /\ out = usage(<<1, 2, 4>>, FALSE).w
    /\ Len(out) > 4

-----------------------------------------------------------------------------
(* C2 *)

\* The long description of every built-in node and the body of every topic
\* below a path, in depth-first declaration order: the node, then the
\* subtrees of its children, then its topics.
RECURSIVE DepthFirst(_)
DepthFirst(n) ==
    <<IF env.style = "short" THEN tree[n].Short ELSE tree[n].Long>>
    \o Flatten([i \in 1..Len(tree[n].Children) |-> DepthFirst(tree[n].Children[i])])
    \o [i \in 1..Len(tree[n].Topics) |-> tree[n].Topics[i].Long]

\* The lines of the output that open the section of a built-in node (its long
\* description, or its short description in short style) or close that of a
\* topic (its body).
SectionLines ==
    SelectSeq(LnTexts(out), LAMBDA s : s \in ToSet(DepthFirst(Last(DumpPath))))

\* C2: a dump (help ... or usageAll) emits a section for every built-in node
\* and every topic below its start exactly once, in depth-first declaration
\* order, a node's topics after all of its children.
C2_DumpDepthFirst ==
    IsDump => SectionLines = DepthFirst(Last(DumpPath))

C2_Witness ==
    /\ IsRunHelp
    /\ req.path = <<1>>
    /\ req.args = <<"...">>
    /\ tree = TreePlain
    /\ SectionLines = << tree[1].Long, tree[2].Long, tree[4].Long, tree[3].Long,
                         "Tips body.", "Guide body." >>

-----------------------------------------------------------------------------
(* C3 *)

\* The segment the dispatcher stands at and the segments after it.
Seg == Stand.rest[1]
SegArgs == Tail(Stand.rest)

OnPath(bin) == \E i \in 1..Len(env.pathDirs) : env.pathDirs[i] = bin

\* The dispatcher stands at a segment that names no built-in child, is not
\* help, and names an executable of a node that searches PATH.
AtExternal ==
    /\ IsRunHelp
    /\ Stand.rest # <<>>
    /\ ChildWalk(Stand.path, <<Seg>>) = <<>>
    /\ Seg # "help"
    /\ StandCmd.LookPath
    /\ OnPath(StandCmd.Name \o "-" \o Seg)

\* What C3 says of a delegation: the executable is run exactly once, with
\* -help if no segment remains and with help and the remaining segments
\* otherwise, with the style in CMDLINE_STYLE; the result is that run's exit
\* status and output and nothing else.
DelegatedOnce ==
    LET bin == StandCmd.Name \o "-" \o Seg
        given == IF SegArgs = <<>> THEN <<"-help">> ELSE <<"help">> \o SegArgs
        run == Run(bin, given, [env.Vars EXCEPT !.CMDLINE_STYLE = env.style])
    IN  /\ Len(calls) = 1
        /\ calls[1].bin = bin
        /\ calls[1].args = given
        /\ calls[1].Vars.CMDLINE_STYLE = env.style
        /\ ret.failed = ~run.ok
        /\ out \o errOut = <<Ext(run.text)>>

\* C3 as stated: the segment need not differ from "...".
C3_AsStated == AtExternal => DelegatedOnce

\* C3 (amended): when the segment is not "...", names no built-in child, is
\* not help, the node searches PATH and <node-name>-<segment> is found there,
\* runHelp runs that executable exactly once, with -help if no segments
\* remain and with help and the remaining segments otherwise; the result of
\* runHelp is the exit status and the output of that run, and no usage text
\* of the parent is added.
C3_ExternalDelegation == (AtExternal /\ Seg # "...") => DelegatedOnce

C3_Witness ==
    /\ AtExternal
    /\ Seg = "extra"
    /\ SegArgs = <<"nope">>
    /\ calls = <<Call("root-extra", <<"help", "nope">>,
                      [CMDLINE_STYLE |-> "godoc", CMDLINE_FIRST_CALL |-> ""],
                      "stdout", "runHelp")>>
    /\ ret = NoError
    /\ out = <<Ext("Output of root-extra help nope in style godoc\n")>>

-----------------------------------------------------------------------------
(* C4 *)

\* The dispatcher stands at a segment that nothing matches.
AtUnknown ==
    /\ IsRunHelp
    /\ Stand.rest # <<>>
    /\ Seg # "..."
    /\ ChildWalk(Stand.path, <<Seg>>) = <<>>
    /\ Seg # "help"
    /\ ~(StandCmd.LookPath /\ OnPath(StandCmd.Name \o "-" \o Seg))
    /\ \A i \in 1..Len(StandCmd.Topics) : StandCmd.Topics[i].Name # Seg

\* C4: an unmatched segment makes runHelp return an error whose message names
\* the full path of the current node and the segment; the message and then
\* the usage of the current node are written to stderr, and nothing is
\* written to the normal output writer.
C4_UnknownSegment ==
    AtUnknown =>
        /\ ret.failed
        /\ Contains(ret.msg, pathName(Stand.path) \o ": ")
        /\ Contains(ret.msg, "\"" \o Seg \o "\"")
        /\ out = <<>>
        /\ Len(errOut) > 1
        /\ errOut[1].k = "pr"
        /\ Contains(errOut[1].s, ret.msg)
        /\ Tail(errOut) = usage(Stand.path, env.firstCall).w \o <<FlushOp>>
        /\ calls = usage(Stand.path, env.firstCall).calls

C4_Witness ==
    /\ AtUnknown
    /\ tree = TreePlain
    /\ req.path = <<1>>
    /\ req.args = <<"build", "nope">>
    /\ ret = [failed |-> TRUE, msg |-> "root build: unknown command or topic \"nope\""]
    /\ out = <<>>
    /\ Ln("The root build flags are:") \in ToSet(errOut)

-----------------------------------------------------------------------------
(* C5 *)

\* C5: in short style usage writes the short description of the node and a
\* line terminator and nothing else, and runs no process, whatever the node
\* has and whether or not the call is a first call.
C5_ShortStyle ==
    (env.style = "short" /\ (req.op = "usage" \/ (IsRunHelp /\ req.args = <<>>)))
        => /\ out = <<Ln(Cmd(Last(req.path)).Short)>>
           /\ calls = <<>>
           /\ errOut = <<>>

C5_Witness ==
    /\ env.style = "short"
    /\ req.op = "usage"
    /\ ~req.firstCall
    /\ tree = TreeMixed
    /\ req.path = <<1>>
    /\ lookPathAll("root", subNames(tree[1])) # <<>>
    /\ out = <<Ln("Root tool")>>

-----------------------------------------------------------------------------
(* C6 *)

\* The request renders the usage of one node: usage itself, or help followed
\* by segments that are all consumed.
IsRender == req.op = "usage" \/ (IsRunHelp /\ Stand.rest = <<>>)

RenderPath == IF req.op = "usage" THEN req.path ELSE Stand.path

RenderFirst == IF req.op = "usage" THEN req.firstCall ELSE env.firstCall

RenderCmd == Cmd(Last(RenderPath))

\* A global flag is hidden when HideGlobalFlagsExcept was called and no regexp
\* given to it matches the name of the flag.
Hidden(f) ==
    /\ ~nonHiddenGlobalFlags.isNil
    /\ \A i \in 1..Len(nonHiddenGlobalFlags.rs) : f.Name \notin nonHiddenGlobalFlags.rs[i]

\* A compact first-call render with a hidden and a non-hidden global flag.
CompactWithHidden ==
    /\ IsRender
    /\ RenderFirst
    /\ env.style = "compact"
    /\ \E i \in 1..Len(globalFlags) : Hidden(globalFlags[i])
    /\ \E i \in 1..Len(globalFlags) : ~Hidden(globalFlags[i])

\* The global flags section of a compact render: the non-hidden flags.
CompactFlagLines ==
    LET shown == SelectSeq(globalFlags, LAMBDA f : ~Hidden(f))
    IN  << Ln(""), Ln("The global flags are:") >>
        \o Flatten([i \in 1..Len(shown) |->
              << Pr(" -" \o shown[i].Name \o "=" \o shown[i].Value),
                 Indents1(3), Ln(shown[i].Usage), Indents0 >>])

\* The output ends with the non-hidden global flags, an empty line and one
\* more line; no hidden flag is listed anywhere.
EndsWithCompactFlags ==
    /\ Len(out) >= Len(CompactFlagLines) + 2
    /\ SubSeq(out, Len(out) - Len(CompactFlagLines) - 1, Len(out) - 2) = CompactFlagLines
    /\ out[Len(out) - 1] = Ln("")
    /\ out[Len(out)].k = "ln"
    /\ \A i \in 1..Len(globalFlags) :
          Hidden(globalFlags[i]) =>
              \A j \in 1..Len(out) : ~HasPrefix(out[j].s, " -" \o globalFlags[i].Name \o "=")

LastLine == out[Len(out)].s

\* C6 as stated: on every node the reminder tells to run help with -style=full.
C6_AsStated ==
    CompactWithHidden =>
        /\ EndsWithCompactFlags
        /\ Contains(LastLine, " help -style=full")

\* C6 (amended): in compact style on a first call, with a hidden and a
\* non-hidden global flag, the flags section lists only the non-hidden global
\* flags and then a reminder.  The reminder tells to run help with
\* -style=full (of the node itself when it has built-in children, of its
\* parent otherwise), except for a root without built-in children, where it
\* tells to run the command with CMDLINE_STYLE=full and -help.
C6_CompactHidesFlags ==
    CompactWithHidden =>
        /\ EndsWithCompactFlags
        /\ IF Len(RenderCmd.Children) > 0
           THEN LastLine = "Run \"" \o pathName(RenderPath)
                           \o " help -style=full\" to show all global flags."
           ELSE IF Len(RenderPath) > 1
           THEN LastLine = "Run \"" \o pathName(SubSeq(RenderPath, 1, Len(RenderPath) - 1))
                           \o " help -style=full " \o RenderCmd.Name
                           \o "\" to show all global flags."
           ELSE /\ LastLine = "Run \"CMDLINE_STYLE=full " \o RenderCmd.Name
                              \o " -help\" to show all global flags."
                /\ ~Contains(LastLine, "-style=full")

C6_Witness ==
    /\ CompactWithHidden
    /\ tree = TreePlain
    /\ RenderPath = <<1, 2>>
    /\ SubSeq(out, Len(out) - 7, Len(out)) =
          << Ln(""), Ln("The global flags are:"), Pr(" -v=0"), Indents1(3),
             Ln("Verbosity."), Indents0, Ln(""),
             Ln("Run \"root build help -style=full\" to show all global flags.") >>

-----------------------------------------------------------------------------
(* C7 *)

\* The table row of the synthesized help command.
HasHelpRow ==
    \E i \in 1..Len(out) :
        /\ out[i].k = "pr"
        /\ HasPrefix(out[i].s, "help ")
        /\ Contains(out[i].s, " Display help for commands or topics")

\* The section a dump writes for the synthesized help command.
HelpDocumented ==
    \E i \in 1..Len(out) :
        /\ out[i].k = "ln"
        /\ \/ env.style # "short" /\ HasPrefix(out[i].s, "Help with no args displays")
           \/ env.style = "short" /\ out[i].s = "Display help for commands or topics"

HasOwnHelp(cmd) == \E i \in 1..Len(cmd.Children) : tree[cmd.Children[i]].Name = "help"

IsFirstRender == IsRender /\ RenderFirst /\ env.style # "short" /\ Last(RenderPath) # HelpId

IsFirstDump ==
    IsDump /\ (IF req.op = "usageAll" THEN req.firstCall ELSE env.firstCall)

\* C7 as stated: built-in children or external search, and no explicit help
\* child, give a synthesized help command; an explicit help child gives none.
C7_AsStated ==
    /\ IsFirstRender =>
          /\ ((Len(RenderCmd.Children) > 0 \/ RenderCmd.LookPath) /\ ~HasOwnHelp(RenderCmd))
                => HasHelpRow
          /\ HasOwnHelp(RenderCmd) => ~HasHelpRow
    /\ IsFirstDump =>
          /\ ((Len(Cmd(Last(DumpPath)).Children) > 0 \/ Cmd(Last(DumpPath)).LookPath)
              /\ ~HasOwnHelp(Cmd(Last(DumpPath))))
                => HelpDocumented
          /\ HasOwnHelp(Cmd(Last(DumpPath))) => ~HelpDocumented

\* C7 (amended): a node gets a synthesized help command exactly when it has
\* built-in children and no explicit child named help: on a first call its
\* sub-command table has a help row, and a dump started at it documents the
\* synthesized help command.  A node with an explicit help child gets none,
\* and neither does a node without built-in children, also when it searches
\* PATH for external sub-commands.
C7_SynthesizedHelp ==
    /\ IsFirstRender =>
          (HasHelpRow <=> (Len(RenderCmd.Children) > 0 /\ ~HasOwnHelp(RenderCmd)))
    /\ IsFirstDump =>
          (HelpDocumented <=>
              (Len(Cmd(Last(DumpPath)).Children) > 0 /\ ~HasOwnHelp(Cmd(Last(DumpPath)))))

C7_Witness ==
    /\ IsFirstDump
    /\ tree = TreeMixed
    /\ DumpPath = <<1>>
    /\ HasHelpRow
    /\ HelpDocumented
    /\ env.style = "godoc"

-----------------------------------------------------------------------------
(* C8 *)

\* The executables a node discovers: those on PATH called <name>-<sub> where
\* <sub> is not the name of one of its built-in children.
Discovered(cmd) ==
    IF cmd.LookPath
    THEN SelectSeq(env.pathDirs,
                   LAMBDA x : /\ HasPrefix(x, cmd.Name \o "-")
                              /\ \A i \in 1..Len(cmd.Children) :
                                    x # cmd.Name \o "-" \o Cmd(cmd.Children[i]).Name)
    ELSE <<>>

Suffix(cmd, bin) == SubSeq(bin, Len(cmd.Name) + 2, Len(bin))

\* The runs of bin the walker made, in their order.
WalkerCalls(bin) == SelectSeq(calls, LAMBDA c : c.by = "usageAll" /\ c.bin = bin)

Fails(bin, args) == ~Understands(env.behave[bin], args)

\* help ... is tried first and once; -help is tried once, exactly when
\* help ... failed; nothing is tried after that.
ProbedInOrder(bin) ==
    LET cb == WalkerCalls(bin)
    IN  /\ Len(cb) \in {1, 2}
        /\ cb[1].args = <<"help", "...">>
        /\ Len(cb) = 2 <=> Fails(bin, <<"help", "...">>)
        /\ Len(cb) = 2 => cb[2].args = <<"-help">>

\* The places of the output where the header h follows a separator.
HeaderPlaces(h) ==
    LET lb == lineBreak(env.style)
    IN  {i \in 1..Len(out) :
            /\ i > Len(lb)
            /\ out[i] = Ln(h)
            /\ SubSeq(out, i - Len(lb), i - 1) = lb}

\* After the place i of the output the walk went on at the node at the end
\* of p: the later executables are run, the synthesized help command is
\* documented and the topics are written.
WalkWentOn(p, bin, i) ==
    LET cmd == Cmd(Last(p))
        found == Discovered(cmd)
    IN  /\ \A m, n \in 1..Len(found) :
              (found[m] = bin /\ m < n) =>
                  \E x, y \in 1..Len(calls) :
                      /\ x < y
                      /\ calls[x].bin = bin /\ calls[x].by = "usageAll"
                      /\ calls[y].bin = found[n] /\ calls[y].by = "usageAll"
        /\ (p = DumpPath /\ IsFirstDump /\ Len(cmd.Children) > 0 /\ ~HasOwnHelp(cmd)) =>
              \E j \in (i + 1)..Len(out) :
                  /\ out[j].k = "ln"
                  /\ \/ env.style # "short" /\ HasPrefix(out[j].s, "Help with no args displays")
                     \/ env.style = "short" /\ out[j].s = "Display help for commands or topics"
        /\ \A t \in 1..Len(cmd.Topics) :
              \E j \in (i + 1)..Len(out) : out[j] = Ln(cmd.Topics[t].Long)

\* The probes of the executables of a dump, with header(p, bin) the header
\* written for an executable that fails both.
DumpProbes(header(_, _)) ==
    IsDump =>
        \A p \in PathsBelow(DumpPath) :
            LET found == Discovered(Cmd(Last(p)))
            IN  \A k \in 1..Len(found) :
                    LET bin == found[k]
                        places == HeaderPlaces(header(p, bin))
                    IN  /\ ProbedInOrder(bin)
                        /\ (Fails(bin, <<"help", "...">>) /\ Fails(bin, <<"-help">>))
                              <=> places # {}
                        /\ \A i \in places : WalkWentOn(p, bin, i)

\* The header with the placeholder.
PlaceholderHeader(p, bin) ==
    firstRuneToUpper(pathName(p) \o " " \o Suffix(Cmd(Last(p)), bin)
                     \o " - No description available")

\* The header godocHeader makes of the path and the placeholder.
PlaceholderOrPath(p, bin) ==
    godocHeader(pathName(p) \o " " \o Suffix(Cmd(Last(p)), bin), "No description available")

-----------------------------------------------------------------------------
(* C9 *)

\* The names of the rows of the sub-command table of the rendered node: the
\* built-in children, the discovered executables without the prefix, and the
\* synthesized help command.
RowNames ==
    [i \in 1..Len(RenderCmd.Children) |-> Cmd(RenderCmd.Children[i]).Name]
    \o [i \in 1..Len(Discovered(RenderCmd)) |-> Suffix(RenderCmd, Discovered(RenderCmd)[i])]
    \o (IF RenderFirst /\ Len(RenderCmd.Children) > 0 /\ ~HasOwnHelp(RenderCmd)
        THEN <<"help">> ELSE <<>>)

TopicNames == [i \in 1..Len(RenderCmd.Topics) |-> RenderCmd.Topics[i].Name]

ColumnWidth(names) == MaxOf({11} \cup {Len(names[i]) : i \in 1..Len(names)})

\* The table under title has one row per name, each name padded to the
\* width of the column, and the text of the rows is indented to the column
\* after it.
TableOf(title, names) ==
    \E i \in 1..Len(out) :
        /\ out[i] = Ln(title)
        /\ Len(out) >= i + 1 + 2 * Len(names)
        /\ out[i + 1] = Indents2(3, 3 + ColumnWidth(names) + 1)
        /\ \A k \in 1..Len(names) :
              /\ out[i + 2 * k].k = "pr"
              /\ HasPrefix(out[i + 2 * k].s,
                           names[k] \o spaces(ColumnWidth(names) - Len(names[k])) \o " ")
        /\ out[i + 2 + 2 * Len(names)] = Indents0

IsTableRender == IsRender /\ env.style # "short"

\* C9: the name column of a rendered sub-command table is as wide as the
\* longest displayed name and at least 11 wide, the displayed names being
\* the built-in children, the discovered executables without the prefix and
\* the synthesized help row, also when the node has no built-in children or
\* no executables; the topic table follows the same rule over its names.
C9_NameColumn ==
    IsTableRender =>
        /\ Len(RowNames) > 0 =>
              TableOf("The " \o pathName(RenderPath) \o " commands are:", RowNames)
        /\ Len(TopicNames) > 0 =>
              TableOf("The " \o pathName(RenderPath) \o " additional help topics are:",
                      TopicNames)

C9_Witness ==
    /\ IsTableRender
    /\ tree = TreeExtOnly
    /\ RenderCmd.Children = <<>>
    /\ RowNames = <<"extra", "extraordinary">>
    /\ ColumnWidth(RowNames) = 13
    /\ \E i \in 1..Len(out) :
          /\ out[i] = Indents2(3, 17)
          /\ HasPrefix(out[i + 1].s, "extra         ")
          /\ HasPrefix(out[i + 3].s, "extraordinary ")
    /\ ColumnWidth(TopicNames) = 11

-----------------------------------------------------------------------------
(* C10, checked under SpecHeader *)

\* h is s with its first character in upper case.
IsUpperOf(h, s) ==
    /\ Len(h) = Len(s)
    /\ s # "" =>
          /\ At(h, 1) = ToUpper(At(s, 1))
          /\ SubSeq(h, 2, Len(h)) = SubSeq(s, 2, Len(s))

\* C10: godocHeader(path, short) with both arguments non-empty returns
\* path - short with its first character in upper case when the recognizer
\* of section headers accepts that line, and path with its first character in
\* upper case otherwise; with an empty argument it returns the other argument
\* with its first character in upper case.
C10_GodocHeader ==
    req.op = "godocHeader" =>
        LET both == req.hpath \o " - " \o req.hshort
            line == firstRuneToUpper(both)
        IN  /\ IsUpperOf(line, both)
            /\ (req.hpath # "" /\ req.hshort # "") =>
                  IF heading(line)
                  THEN IsUpperOf(hdr, both)
                  ELSE IsUpperOf(hdr, req.hpath)
            /\ req.hpath = "" => IsUpperOf(hdr, req.hshort)
            /\ req.hshort = "" => IsUpperOf(hdr, req.hpath)

C10_Witness ==
    /\ req.op = "godocHeader"
    /\ req.hpath = "as"
    /\ req.hshort = "a:"
    /\ hdr = "As"

-----------------------------------------------------------------------------
(* C11, checked under SpecHide *)

\* The name of the flag matches a regexp given in one of the calls made.
MatchedInSomeCall(f) ==
    \E c \in 1..Len(hideCalls) : \E i \in 1..Len(hideCalls[c]) : f.Name \in hideCalls[c][i]

\* No call was made, or the name matches a regexp of one of the calls.
ShownByCalls(f) == hideCalls = <<>> \/ MatchedInSomeCall(f)

\* The global flags a compact usage shows for a value of nonHiddenGlobalFlags.
ShownCompact(regexps) ==
    {i \in 1..Len(globalFlags) : matchRegexps(regexps, globalFlags[i].Name)}

\* The global flags listed in the output.
ListedFlags ==
    {i \in 1..Len(globalFlags) :
        \E j \in 1..Len(out) :
            out[j].k = "pr" /\ HasPrefix(out[j].s, " -" \o globalFlags[i].Name \o "=")}

IsCompactFirstUsage == req.op = "usage" /\ req.firstCall /\ env.style = "compact"

\* C11: after any sequence of calls of HideGlobalFlagsExcept the global flags
\* shown in compact style are those shown after one call with the regexps of
\* all the calls: a flag is shown iff its name matches a regexp of some call.
\* With no call every global flag is shown, and after calls that gave no
\* regexp at all none is.  A compact first-call usage lists exactly them.
C11_HideAccumulates ==
    /\ Len(hideCalls) > 0 =>
          ShownCompact(nonHiddenGlobalFlags)
             = ShownCompact(HideGlobalFlagsExcept(NilRegexps, Flatten(hideCalls)))
    /\ ShownCompact(nonHiddenGlobalFlags)
          = {i \in 1..Len(globalFlags) : ShownByCalls(globalFlags[i])}
    /\ hideCalls = <<>> => ShownCompact(nonHiddenGlobalFlags) = 1..Len(globalFlags)
    /\ (Len(hideCalls) > 0 /\ Flatten(hideCalls) = <<>>) =>
          ShownCompact(nonHiddenGlobalFlags) = {}
    /\ IsCompactFirstUsage =>
          ListedFlags = {i \in 1..Len(globalFlags) : ShownByCalls(globalFlags[i])}

C11_Witness ==
    /\ IsCompactFirstUsage
    /\ hideCalls = << <<{"v"}>>, <<{"log"}>> >>
    /\ nonHiddenGlobalFlags = Regexps(<< {"v"}, {"log"} >>)
    /\ ListedFlags = {1, 2}

-----------------------------------------------------------------------------
(* C12, checked under SpecHide *)

IsFullFirstUsage == req.op = "usage" /\ req.firstCall /\ env.style \in {"full", "godoc"}

\* The lines of a group of global flags: godoc shows the default value.
GroupLines(fs) ==
    Flatten([i \in 1..Len(fs) |->
        << Pr(" -" \o fs[i].Name \o "="
              \o (IF env.style = "godoc" THEN fs[i].DefValue ELSE fs[i].Value)),
           Indents1(3), Ln(fs[i].Usage), Indents0 >>])

\* The global flags section of full and godoc style: the non-hidden flags,
\* then the hidden ones, an empty line between the groups when there are two.
TwoGroups ==
    LET shown == SelectSeq(globalFlags, LAMBDA f : ShownByCalls(f))
        hidden == SelectSeq(globalFlags, LAMBDA f : ~ShownByCalls(f))
    IN  << Ln(""), Ln("The global flags are:") >>
        \o GroupLines(shown)
        \o (IF shown # <<>> /\ hidden # <<>> THEN <<Ln("")>> ELSE <<>>)
        \o GroupLines(hidden)

\* C12: a first-call render in full or godoc style prints every global flag
\* exactly once whatever HideGlobalFlagsExcept hid: the non-hidden flags, then
\* the hidden ones, with an empty line between the groups exactly when both
\* have a flag, and it prints no reminder of -style=full.
C12_FullShowsAllFlags ==
    IsFullFirstUsage =>
        /\ Len(out) >= Len(TwoGroups)
        /\ SubSeq(out, Len(out) - Len(TwoGroups) + 1, Len(out)) = TwoGroups
        /\ \A i \in 1..Len(globalFlags) :
              Cardinality({j \in 1..Len(out) :
                  /\ out[j].k = "pr"
                  /\ HasPrefix(out[j].s, " -" \o globalFlags[i].Name \o "=")}) = 1
        /\ \A j \in 1..Len(out) :
              /\ ~Contains(out[j].s, "-style=full")
              /\ ~Contains(out[j].s, "to show all global flags")

C12_Witness ==
    /\ IsFullFirstUsage
    /\ env.style = "godoc"
    /\ hideCalls = << <<{"v"}>> >>
    /\ SubSeq(out, Len(out) - 10, Len(out)) =
          << Ln(""), Ln("The global flags are:"),
             Pr(" -v=0"), Indents1(3), Ln("Verbosity."), Indents0,
             Ln(""),
             Pr(" -log=$TMP/log"), Indents1(3), Ln("Log file."), Indents0 >>

-----------------------------------------------------------------------------
(* C13 *)

\* The place of the line "Usage:" in a render that is not in short style.
UsagePlace == CHOOSE i \in 1..Len(out) : out[i] = Ln("Usage:")

\* The lines of the output under "Usage:": the invocation lines.
InvocationLines ==
    LET n == IF Len(out) >= UsagePlace + 2 /\ HasPrefix(out[UsagePlace + 2].s, "   ") THEN 2
             ELSE IF Len(out) >= UsagePlace + 1 /\ HasPrefix(out[UsagePlace + 1].s, "   ") THEN 1
             ELSE 0
    IN  [j \in 1..n |-> out[UsagePlace + j].s]

HasSuffix(s, x) == Len(s) >= Len(x) /\ SubSeq(s, Len(s) - Len(x) + 1, Len(s)) = x

HasFlags(n) == Len(Cmd(n).Flags) > 0

HasSubCommands == Len(RenderCmd.Children) > 0 \/ Discovered(RenderCmd) # <<>>

\* The invocation lines, given whether they hold [flags].
InvocationLinesAre(withFlags) ==
    LET base == "   " \o pathName(RenderPath) \o (IF withFlags THEN " [flags]" ELSE "")
    IN  InvocationLines =
            (IF RenderCmd.Runner
             THEN <<base \o (IF RenderCmd.ArgsName # "" THEN " " \o RenderCmd.ArgsName ELSE "")>>
             ELSE <<>>)
            \o (IF HasSubCommands THEN <<base \o " <command>">> ELSE <<>>)

\* C13 as stated: [flags] exactly when the node or one of its ancestors on
\* the path has a flag.
C13_AsStated ==
    IsTableRender =>
        /\ \E i \in 1..Len(out) : out[i] = Ln("Usage:")
        /\ InvocationLinesAre(\E k \in 1..Len(RenderPath) : HasFlags(RenderPath[k]))

\* C13 (amended): the invocation lines of a usage hold [flags] exactly when
\* the node itself has a flag; the argument names are on a line only when
\* the node has a Runner, and there is a <command> line exactly when the node
\* has built-in children or discovered executables.
C13_InvocationLine ==
    IsTableRender =>
        /\ \E i \in 1..Len(out) : out[i] = Ln("Usage:")
        /\ InvocationLinesAre(HasFlags(Last(RenderPath)))
        /\ \A j \in 1..Len(InvocationLines) :
              /\ Contains(InvocationLines[j], "[flags]") <=> HasFlags(Last(RenderPath))
              /\ (RenderCmd.ArgsName # ""
                  /\ HasSuffix(InvocationLines[j], " " \o RenderCmd.ArgsName))
                    => RenderCmd.Runner
        /\ (\E j \in 1..Len(InvocationLines) : HasSuffix(InvocationLines[j], " <command>"))
              <=> HasSubCommands

C13_Witness ==
    /\ IsTableRender
    /\ tree = TreePlain
    /\ RenderPath = <<1, 2, 4>>
    /\ HasFlags(2)
    /\ ~HasFlags(4)
    /\ InvocationLines = <<"   root build incrementally">>

-----------------------------------------------------------------------------
(* C14 *)

\* The topics of the node the dispatcher stands at that the segment names.
TopicsNamed == {i \in 1..Len(StandCmd.Topics) : StandCmd.Topics[i].Name = Seg}

IsExternal == StandCmd.LookPath /\ OnPath(StandCmd.Name \o "-" \o Seg)

\* C14: a segment is resolved by the first of: "...", a built-in child of
\* that name, the name of the help command, an executable on PATH (when the
\* node searches PATH), a topic, the error for an unknown segment.  Stand is
\* where the segments that name a child, and after them the help command,
\* lead; there "..." dumps whatever else has that name, an executable is run
\* whatever topic has that name, and a topic is written only when there is
\* no executable.
C14_Precedence ==
    IsRunHelp =>
        IF Stand.rest = <<>>
        THEN /\ out = usage(Stand.path, env.firstCall).w
             /\ ret = NoError
        ELSE IF Seg = "..."
        THEN /\ out = usageAll(Stand.path, env.firstCall).w
             /\ calls = usageAll(Stand.path, env.firstCall).calls
             /\ ret = NoError
        ELSE IF IsExternal
        THEN DelegatedOnce
        ELSE IF TopicsNamed # {}
        THEN /\ \E i \in TopicsNamed : out = <<Ln(StandCmd.Topics[i].Long)>>
             /\ calls = <<>>
             /\ ret = NoError
        ELSE /\ ret.failed
             /\ out = <<>>

\* A built-in child shadows the executable and the topic of its name.
C14_Witness ==
    /\ IsRunHelp
    /\ tree = TreeMixed
    /\ req.path = <<1>>
    /\ req.args = <<"build">>
    /\ OnPath("root-build")
    /\ tree[1].Topics[1].Name = "build"
    /\ Stand = [path |-> <<1, 2>>, rest |-> <<>>]
    /\ calls = <<>>
    /\ out = usage(<<1, 2>>, env.firstCall).w
    /\ env.style = "full"

-----------------------------------------------------------------------------
(* C15 *)

\* The first line of a text, without its line terminator.
RECURSIVE FirstLine(_)
FirstLine(s) ==
    IF s = "" \/ At(s, 1) = "\n" THEN ""
    ELSE At(s, 1) \o FirstLine(SubSeq(s, 2, Len(s)))

\* The start of the row of an executable in the table of the rendered node.
RowStart(bin) ==
    LET name == Suffix(RenderCmd, bin)
    IN  name \o spaces(ColumnWidth(RowNames) - Len(name)) \o " "

\* The part of the output that is the sub-command table of the rendered node:
\* from its title to the reset of the indents.
CommandTable ==
    LET title == Ln("The " \o pathName(RenderPath) \o " commands are:")
        starts == {i \in 1..Len(out) : out[i] = title}
    IN  IF starts = {} THEN <<>>
        ELSE LET i == CHOOSE x \in starts : TRUE
                 e == CHOOSE x \in (i + 1)..Len(out) :
                         /\ out[x] = Indents0
                         /\ \A y \in (i + 1)..(x - 1) : out[y] # Indents0
             IN  SubSeq(out, i + 1, e - 1)

\* The descriptions of the rows of the executable.
RowTexts(bin) ==
    LET rows == SelectSeq(CommandTable,
                          LAMBDA o : o.k = "pr" /\ HasPrefix(o.s, RowStart(bin)))
    IN  [i \in 1..Len(rows) |-> SubSeq(rows[i].s, Len(RowStart(bin)) + 1, Len(rows[i].s))]

\* The runs made for the row of the executable.
RowCalls(bin) == SelectSeq(calls, LAMBDA c : c.by = "usage" /\ c.bin = bin)

\* What the executable writes when run with -help in style short.
ShortOutput(bin) == Run(bin, <<"-help">>, [env.Vars EXCEPT !.CMDLINE_STYLE = "short"]).text

\* Every executable is run once with -help in style short and has one row,
\* whose description is given by described(bin) when the run succeeds.
RowsOfBinaries(described(_)) ==
    IsTableRender =>
        \A k \in 1..Len(Discovered(RenderCmd)) :
            LET bin == Discovered(RenderCmd)[k]
            IN  /\ Len(RowCalls(bin)) = 1
                /\ RowCalls(bin)[1].args = <<"-help">>
                /\ RowCalls(bin)[1].Vars.CMDLINE_STYLE = "short"
                /\ Len(RowTexts(bin)) = 1
                /\ IF Fails(bin, <<"-help">>)
                   THEN RowTexts(bin)[1] = "No description available"
                   ELSE RowTexts(bin)[1] \in described(bin)

FirstLineOnly(bin) == {FirstLine(ShortOutput(bin)), FirstLine(ShortOutput(bin)) \o "\n"}

WholeOutput(bin) == {ShortOutput(bin)}

\* C15 as stated: the description is the first line of the captured output.
C15_AsStated == RowsOfBinaries(FirstLineOnly)

\* C15 (amended): in the sub-command table the description of a discovered
\* executable is all the output captured from running it with -help in style
\* short when that run succeeds, and "No description available" when it
\* fails; each executable is run once for the table and has exactly one row.
C15_RowDescription == RowsOfBinaries(WholeOutput)

C15_Witness ==
    /\ IsTableRender
    /\ tree = TreeExtOnly
    /\ env.behave["root-extra"] = "flagonly"
    /\ env.behave["root-extraordinary"] = "broken"
    /\ RowTexts("root-extra") = <<"Usage of root-extra:\n  -x\tan option\n">>
    /\ RowTexts("root-extraordinary") = <<"No description available">>
    /\ Len(calls) = 2

-----------------------------------------------------------------------------
(* C16 *)

\* C16: every executable run for help gets the style in CMDLINE_STYLE: the
\* style of the parent when runHelp delegates to it and when a dump probes
\* it, short when a table row probes it.  A probe of a dump gets
\* CMDLINE_FIRST_CALL=1 as well; a delegation leaves CMDLINE_FIRST_CALL as
\* the parent has it.  A delegation writes to the sinks of the parent, a
\* probe to a buffer, and the variables of the parent are what they were.
C16_EnvOfCalls ==
    /\ \A i \in 1..Len(calls) :
          /\ calls[i].by = "runHelp" =>
                /\ calls[i].Vars.CMDLINE_STYLE = env.style
                /\ calls[i].Vars.CMDLINE_FIRST_CALL = env.Vars.CMDLINE_FIRST_CALL
                /\ calls[i].sink = "stdout"
          /\ calls[i].by = "usageAll" =>
                /\ calls[i].Vars.CMDLINE_STYLE = env.style
                /\ calls[i].Vars.CMDLINE_FIRST_CALL = "1"
                /\ calls[i].sink = "buffer"
          /\ calls[i].by = "usage" =>
                /\ calls[i].Vars.CMDLINE_STYLE = "short"
                /\ calls[i].sink = "buffer"
          /\ calls[i].by \in {"runHelp", "usageAll", "usage"}
    /\ env.Vars = [CMDLINE_STYLE |-> "",
                   CMDLINE_FIRST_CALL |-> IF env.firstCall THEN "" ELSE "1"]

C16_Witness ==
    /\ IsFirstDump
    /\ tree = TreeMixed
    /\ DumpPath = <<1>>
    /\ env.style = "full"
    /\ env.Vars.CMDLINE_FIRST_CALL = ""
    /\ \E i, j \in 1..Len(calls) :
          /\ calls[i].by = "usage"
          /\ calls[i].Vars = [CMDLINE_STYLE |-> "short", CMDLINE_FIRST_CALL |-> ""]
          /\ calls[j].by = "usageAll"
          /\ calls[j].Vars = [CMDLINE_STYLE |-> "full", CMDLINE_FIRST_CALL |-> "1"]

-----------------------------------------------------------------------------
(* C17 *)

\* The places of the lines "Usage:": one in every render not in short style.
UsagePlaces == {i \in 1..Len(out) : out[i] = Ln("Usage:")}

\* The nodes a dump renders: the built-in nodes below its start and, on a
\* first call, the synthesized help command of the start.
DumpedPaths ==
    PathsBelow(DumpPath)
    \cup (IF /\ IsFirstDump
             /\ Len(Cmd(Last(DumpPath)).Children) > 0
             /\ ~HasOwnHelp(Cmd(Last(DumpPath)))
          THEN {Append(DumpPath, HelpId)} ELSE {})

\* What a render that is not a first call starts with: a separator, the
\* header of the node and an empty line.
HeadOf(p) ==
    lineBreak(env.style)
    \o << Verbatim(TRUE), Ln(godocHeader(pathName(p), Cmd(Last(p)).Short)),
          Verbatim(FALSE), Ln("") >>

\* The render whose line "Usage:" is at u is that of p and starts with a
\* separator and a header.
HeadBefore(u, p) ==
    LET h == HeadOf(p) \o << Ln(Cmd(Last(p)).Long), Ln("") >>
    IN  u > Len(h) /\ SubSeq(out, u - Len(h), u - 1) = h

\* The hints of a first call that is not in godoc style.
IsHint(o) ==
    /\ HasPrefix(o.s, "Run \"")
    /\ \/ Contains(o.s, " help [command]\" for command usage.")
       \/ Contains(o.s, " help [topic]\" for topic details.")

\* What only a first call writes.
FirstCallOnly(o) ==
    \/ o = Ln("The global flags are:")
    \/ Contains(o.s, "to show all global flags")
    \/ o.k = "pr" /\ HasPrefix(o.s, "help ")
                  /\ Contains(o.s, " Display help for commands or topics")
    \/ IsHint(o)

\* In a dump only the render of the start can be a first call, and a render
\* that is not a first call has nothing of what only a first call writes.
OnlyStartIsFirst ==
    /\ (IsDump /\ env.style # "short") =>
          LET first == CHOOSE u \in UsagePlaces : \A v \in UsagePlaces : u <= v
              later == UsagePlaces \ {first}
          IN  /\ Cardinality(UsagePlaces) = Cardinality(DumpedPaths)
              /\ \A u \in later : \E p \in DumpedPaths \ {DumpPath} : HeadBefore(u, p)
              /\ IF IsFirstDump THEN out[1] = Ln(Cmd(Last(DumpPath)).Long)
                 ELSE HeadBefore(first, DumpPath)
              /\ \A j \in 1..Len(out) :
                    FirstCallOnly(out[j]) =>
                        /\ IsFirstDump
                        /\ \A u \in later : j < u - Len(HeadOf(DumpPath)) - 2
    /\ (IsRender /\ ~RenderFirst /\ env.style # "short") =>
          /\ UsagePlaces # {}
          /\ \A u \in UsagePlaces : HeadBefore(u, RenderPath)
          /\ \A j \in 1..Len(out) : ~FirstCallOnly(out[j])
    /\ env.style = "godoc" => \A j \in 1..Len(out) : ~IsHint(out[j])

\* The output starts with a separator and the header of p.
StartsWithHead(p) ==
    Len(out) >= Len(HeadOf(p)) /\ SubSeq(out, 1, Len(HeadOf(p))) = HeadOf(p)

\* C17 as stated: a render that is not a first call starts with a separator
\* and a header in every style.
C17_AsStated ==
    /\ OnlyStartIsFirst
    /\ (IsRender /\ ~RenderFirst) => StartsWithHead(RenderPath)

\* C17 (amended): in a dump only the render of the starting node can be a
\* first call; every other render is not.  A render that is not a first
\* call and is not in short style starts with a separator and a header, and
\* no render that is not a first call has the global flags section, the
\* reminder of -style=full, the row of the synthesized help command or the
\* hints Run ... help [command] and Run ... help [topic]; no render in godoc
\* style has those hints.
C17_FirstCallOnlyAtStart ==
    /\ OnlyStartIsFirst
    /\ (IsRender /\ ~RenderFirst /\ env.style # "short") => StartsWithHead(RenderPath)
    /\ (IsRender /\ ~RenderFirst /\ env.style = "short") =>
          /\ out = <<Ln(RenderCmd.Short)>>
          /\ \A j \in 1..Len(out) : ~FirstCallOnly(out[j])

C17_Witness ==
    /\ IsFirstDump
    /\ tree = TreePlain
    /\ DumpPath = <<1>>
    /\ env.style = "compact"
    /\ hideCalls # <<>>
    /\ Cardinality(UsagePlaces) = 5
    /\ \E j \in 1..Len(out) : out[j] = Ln("The global flags are:")
    /\ \E j \in 1..Len(out) : IsHint(out[j])
    /\ \E u \in UsagePlaces : HeadBefore(u, <<1, 2, 4>>)

-----------------------------------------------------------------------------
(* C19 *)

\* The dispatcher stands at a segment that resolves to a topic of the node:
\* it is not "...", names no built-in child, is not help, names no executable
\* of a node that searches PATH, and is the name of a topic.
AtTopic ==
    /\ IsRunHelp
    /\ Stand.rest # <<>>
    /\ Seg # "..."
    /\ ChildWalk(Stand.path, <<Seg>>) = <<>>
    /\ Seg # helpName
    /\ ~IsExternal
    /\ TopicsNamed # {}

\* The first topic of the node that has the name of the segment.
TopicAt == StandCmd.Topics[CHOOSE i \in TopicsNamed : \A j \in TopicsNamed : i <= j]

\* C19: when the segment resolves to a topic of the current node, runHelp
\* writes the long body of the topic and a line terminator and nothing else,
\* and returns success; the segments after the name of the topic are ignored:
\* they start no process, and nothing is reported about them; no usage is
\* written.
C19_TopicBody ==
    AtTopic =>
        /\ out = <<Ln(TopicAt.Long)>>
        /\ errOut = <<>>
        /\ calls = <<>>
        /\ ret = NoError

\* A topic of the root is asked for with a segment after its name that names
\* nothing; the body of the topic is all that is written.
C19_Witness ==
    /\ AtTopic
    /\ tree = TreePlain
    /\ Stand.path = <<1>>
    /\ Stand.rest = <<"guide", "nope">>
    /\ out = <<Ln("Guide body.")>>
    /\ ret = NoError

-----------------------------------------------------------------------------
(* C18 *)

\* A dump started anywhere, the synthesized help command included.
IsAnyDump ==
    \/ req.op = "usageAll"
    \/ IsRunHelp /\ Stand.rest # <<>> /\ Stand.rest[1] = "..."

\* The line that opens the description of a node in its section: its long
\* description, or its short description in short style.
SectionMark(n) == Ln(IF env.style = "short" THEN Cmd(n).Short ELSE Cmd(n).Long)

\* The places where a section of the synthesized help command is opened.
HelpPlaces == {i \in 1..Len(out) : out[i] = SectionMark(HelpId)}

\* The places where the section of the executable bin of the node at the end
\* of p is: the output of one of its probes, or its header.
BinaryPlaces(p, bin) ==
    {i \in 1..Len(out) :
        \E k \in 1..Len(calls) :
            /\ calls[k].by = "usageAll"
            /\ calls[k].bin = bin
            /\ out[i] = Pr(Run(bin, calls[k].args, calls[k].Vars).text)}
    \cup HeaderPlaces(PlaceholderOrPath(p, bin))

\* The sections of the topics of the node at the end of p.
TopicsOf(p) ==
    Flatten([i \in 1..Len(Cmd(Last(p)).Topics) |->
                topicSection(pathName(p), Cmd(Last(p)).Topics[i])])

\* C18: in a dump the synthesized help command is documented at most once,
\* for the starting node and for no descendant; its section comes after the
\* subtrees of all built-in children of the starting node and after the
\* sections of its executables, and before its topics; between the section
\* of the help command and the topics there is nothing: the walk does not go
\* below the help command.
C18_HelpSectionOnce ==
    IsAnyDump =>
        LET start == Cmd(Last(DumpPath))
            helpPath == Append(DumpPath, HelpId)
            helpSec == usage(helpPath, FALSE).w
            topics == TopicsOf(DumpPath)
            cut == Len(out) - Len(topics) - Len(helpSec)
        IN  /\ Cardinality(HelpPlaces) <= 1
            /\ (Last(DumpPath) = HelpId) => out = usage(DumpPath, env.firstCall).w
            /\ (Last(DumpPath) # HelpId /\ HelpPlaces # {}) =>
                  /\ IsFirstDump
                  /\ cut >= 0
                  /\ SubSeq(out, cut + 1, cut + Len(helpSec)) = helpSec
                  /\ SubSeq(out, cut + Len(helpSec) + 1, Len(out)) = topics
                  /\ \A h \in HelpPlaces : h > cut /\ h <= cut + Len(helpSec)
                  /\ \A p \in PathsBelow(DumpPath) :
                        /\ \E i \in 1..cut : out[i] = SectionMark(Last(p))
                        /\ \A i \in 1..Len(out) : out[i] = SectionMark(Last(p)) => i <= cut
                        /\ \A k \in 1..Len(Discovered(Cmd(Last(p)))) :
                              LET places == BinaryPlaces(p, Discovered(Cmd(Last(p)))[k])
                              IN  places # {} /\ \A i \in places : i <= cut
                        /\ p # DumpPath =>
                              \A t \in 1..Len(Cmd(Last(p)).Topics) :
                                 \E i \in 1..cut : out[i] = Ln(Cmd(Last(p)).Topics[t].Long)

\* A first dump of a root with a built-in subtree, executables and topics:
\* the help command is documented once, after the subtree and the
\* executables, and the topics follow it.
C18_Witness ==
    /\ IsFirstDump
    /\ tree = TreeMixed
    /\ DumpPath = <<1>>
    /\ env.style = "compact"
    /\ Cardinality(HelpPlaces) = 1
    /\ \A h \in HelpPlaces :
          /\ \E i \in 1..(h - 1) : out[i] = SectionMark(3)
          /\ \A b \in {"one-more", "root-...", "root-extra"} :
                \E i \in 1..(h - 1) : i \in BinaryPlaces(IF b = "one-more" THEN <<1, 2, 3>> ELSE <<1>>, b)
          /\ \E i \in (h + 1)..Len(out) : out[i] = Ln("Build body.")
    /\ out[Len(out)] = Ln("Extra body.")

-----------------------------------------------------------------------------
(* C20 *)

\* What the k-th process run wrote to the stdout and stderr it was given.
Captured(k) == Run(calls[k].bin, calls[k].args, calls[k].Vars)

\* The processes that were run with a buffer as stdout and stderr.
Buffered == {k \in 1..Len(calls) : calls[k].sink = "buffer"}

\* The write o holds what the k-th process wrote.
Carries(o, k) == Contains(o.s, Captured(k).text)

\* The k-th run succeeded, and no earlier probe of the same executable by
\* the same loop did.
FirstSuccess(k) ==
    /\ Captured(k).ok
    /\ \A j \in 1..(k - 1) :
          (calls[j].bin = calls[k].bin /\ calls[j].by = calls[k].by) => ~Captured(j).ok

\* The write o is the splice of the buffer of the k-th run: the buffer and
\* nothing else in a dump, the name of the executable, padding and the buffer
\* in a row of a table.
SpliceOf(o, k) ==
    IF calls[k].by = "usageAll" THEN o = Pr(Captured(k).text)
    ELSE \E p \in ValidPaths :
            /\ \E x \in 1..Len(Discovered(Cmd(Last(p)))) :
                  Discovered(Cmd(Last(p)))[x] = calls[k].bin
            /\ o.k = "pr"
            /\ \E n \in 0..minNameWidth :
                  o.s = Suffix(Cmd(Last(p)), calls[k].bin) \o spaces(n) \o " "
                        \o Captured(k).text

-----------------------------------------------------------------------------
(* C21 *)

\* A request is being walked, or has been.
Walked == steps.op # "none"

\* No node has the synthesized help command in its list of children.
NoStoredHelp ==
    \A n \in DOMAIN tree :
        \A i \in 1..Len(tree[n].Children) : tree[n].Children[i] # HelpId

\* The path every caller holds is what it was when the caller got it: that of
\* the caller of the request, and that of every call in progress.
PathsHeld ==
    /\ Walked => SubSeq(heap[1], 1, Len(steps.path)) = steps.path
    /\ \A k \in 1..Len(stack) : View(heap, stack[k].path) = stack[k].entry

\* C21: no step of a help request changes the command tree: the lists of
\* children and of topics, the names and the descriptions of all nodes stay
\* what they were, and the synthesized help command is in no list of
\* children; the path a caller holds is unchanged while the calls it made
\* run and when they return.
C21_TreeAndPathsKept ==
    /\ [][tree' = tree]_vars
    /\ [](NoStoredHelp /\ PathsHeld)

\* A dump has come back from the first child of the root to go on with the
\* second; the call for the first child, and the calls below it, wrote to the
\* backing array the root's path lies in.
C21_Witness ==
    /\ Walked
    /\ tree = TreePlain
    /\ Len(stack) = 1
    /\ stack[1].fn = "usageAll"
    /\ stack[1].pc = "children"
    /\ stack[1].i = 2
    /\ stack[1].path = [a |-> 1, len |-> 1]
    /\ heap[1] = <<1, 2>>
    /\ Len(heap) > 1
    /\ View(heap, stack[1].path) = <<1>>

-----------------------------------------------------------------------------
(* C22 *)

\* The request walked has returned.
Finished == Walked /\ stack = <<>>

\* An executable with the name the node n would search for is on PATH.
HasExecutable(n) ==
    \E i \in 1..Len(env.pathDirs) : HasPrefix(env.pathDirs[i], tree[n].Name \o "-")

\* C22: PATH is searched and a process is run only for a node whose LookPath
\* is set, and the process run for a node is an executable named after it;
\* for a node whose LookPath is not set no request (a segment dispatched at
\* it, its usage, a dump that goes through it) searches PATH or runs a
\* process, whatever executables are on PATH.
C22_OnlyWhereAsked ==
    /\ \A k \in 1..Len(lookups) : Cmd(lookups[k].node).LookPath
    /\ \A k \in 1..Len(runs) :
          /\ Cmd(runs[k].node).LookPath
          /\ HasPrefix(runs[k].bin, Cmd(runs[k].node).Name \o "-")

\* help build nope asked of the plain tree, where no node searches PATH and
\* build-nope and root-nope are on PATH: the segment is unknown, the usage of
\* build is written, and PATH is never searched.
C22_Witness ==
    /\ Finished
    /\ tree = TreePlain
    /\ steps.op = "runHelp"
    /\ steps.path = <<1>>
    /\ steps.args = <<"build", "nope">>
    /\ env.style = "compact"
    /\ HasExecutable(1)
    /\ HasExecutable(2)
    /\ lookPath("build-nope")
    /\ steps.usage = 1
    /\ lookups = <<>>
    /\ runs = <<>>

-----------------------------------------------------------------------------
(* C23 *)

\* The calls of usageAll in progress, the outermost first.
DumpFrames == SelectSeq(stack, LAMBDA f : f.fn = "usageAll")

\* The built-in nodes a dump started at the path p has to render.
NodesOf(p) == IF Last(p) = HelpId THEN {} ELSE PathsBelow(p)

\* A dump started at p as a first call or not documents the help command.
HelpOf(p, firstCall) ==
    IF Last(p) = HelpId THEN 1
    ELSE IF firstCall /\ needsHelpChild(Cmd(Last(p))) THEN 1 ELSE 0

\* Every call of runHelp has one segment less than its caller; runHelp has
\* called itself at most once per segment; usageAll has been called at most
\* once per built-in node below the start of the dump and once for the
\* synthesized help command, and exactly so often when the dump is over.
StepBounds ==
    /\ \A k \in 1..Len(stack) :
          stack[k].fn = "runHelp" =>
              /\ Len(stack[k].args) = Len(steps.args) - (k - 1)
              /\ \A j \in 1..k : stack[j].fn = "runHelp"
    /\ steps.op = "runHelp" => steps.runHelp - 1 <= Len(steps.args)
    /\ steps.op = "usageAll" => steps.runHelp = 0
    /\ DumpFrames # <<>> =>
          LET start == DumpFrames[1]
              most == Cardinality(NodesOf(start.entry)) + HelpOf(start.entry, start.firstCall)
          IN  /\ steps.usageAll <= most
              /\ most <= Cardinality(NodesOf(start.entry)) + 1
              /\ start.pc = "done" => steps.usageAll = most

\* C23: every help request returns: runHelp takes one segment off args in
\* every call it makes of itself, so it calls itself at most len(args) times,
\* help help ... included; usageAll is called once for every built-in node
\* and at most once for the synthesized help command.
C23_Terminates ==
    /\ []StepBounds
    /\ (Walked ~> Finished)

\* help help help has returned after two calls runHelp made of itself, each
\* with a new help command at the end of the path.
C23_Witness ==
    /\ Finished
    /\ steps.op = "runHelp"
    /\ steps.args = <<"help", "help">>
    /\ steps.runHelp = 3
    /\ steps.usage = 1
    /\ \E a \in 1..Len(heap) :
          Len(heap[a]) >= 3 /\ SubSeq(heap[a], 1, 3) = <<1, HelpId, HelpId>>

====
